---- MODULE Spec2Model ----
(***************************************************************************)
(* Corpus synchronisation of the Amplify documentation MCP server:         *)
(* setupGitRepo / setupWithGit / setupWithTarball (src/src/git.ts) and the *)
(* startup sequence and refresh timer of AmplifyDocsMcpServer.run          *)
(* (src/src/index.ts).                                                     *)
(*                                                                         *)
(* The data directory is a record: whether it exists, the set of entries   *)
(* found in it (whole subtrees are single entries), the state of its .git  *)
(* directory, the upstream version its documents were taken from and the   *)
(* upstream version its remote-tracking ref points to.  The global         *)
(* console.log is the function the process started with or a safeLog of    *)
(* setupWithGit.                                                           *)
(*                                                                         *)
(* Query answering has specifications of its own, over the same variables: *)
(* CacheSpec (SearchCache, src/src/cache.js, call by call), SearchSpec     *)
(* (tool calls and executeDocsSearch with its cache, request by request,   *)
(* over a working copy that a refresh may pull into),                      *)
(* HandlerSpec (the tool handler and the HTTP search routes on valid and   *)
(* invalid requests), HeadingSpec (getHeadingIndex and its two caches) and *)
(* FunctionSpec (the cache key, the ranking comparator, the                *)
(* DirectoryManager, directory scoping, loadConfig, extractHeadings, the   *)
(* full-content branch of executeDocsSearch and the classifying            *)
(* predicates, each applied once to arguments drawn at the                 *)
(* start).  Strings are TLA+ strings; includes, toLowerCase and the        *)
(* regular expressions are computed character by character.                *)
(***************************************************************************)
EXTENDS Integers, FiniteSets, Sequences, Bags, TLC

\* ------------------------------------------------------------------ bounds
\* number of timer-tick calls that may be in flight at once
MaxRefresh == 2
\* number of upstream versions (commits pushed to the remote)
MaxRemoteVer == 2
\* number of times the server process is started on the same disk
MaxRuns == 2

\* ------------------------------------------------------- corpus entries
PlatformDir == "src/pages/[platform]"
Gen1Dir == "src/pages/gen1"
Gen2FragmentsDir == "src/fragments/gen2"
LibFragmentsDir == "src/fragments/lib"
FragmentsFile == "src/fragments/notes.mdx"
CacheDir == ".cache"
Placeholder == "README.md"
LegacyFile == "legacy/old.md"

\* the subdirectories of src/fragments (FragmentsFile is a plain file)
FragmentDirs == {Gen2FragmentsDir, LibFragmentsDir}
\* what a checkout of the upstream repository contains
RemoteTree == {PlatformDir, Gen1Dir, Gen2FragmentsDir, LibFragmentsDir, FragmentsFile}
Entries == RemoteTree \cup {CacheDir, Placeholder, LegacyFile}

VARIABLES
  config,     \* the immutable Config of the process
  root,       \* config.dataDir on disk
  remoteVer,  \* head of the upstream ref
  startup,    \* the setupGitRepo(config) call of run: its locals and position
  refreshes,  \* the bag of setupGitRepo(config, true) calls in flight
  lastRefresh,\* the refresh call that completed last
  mainPc,     \* position of AmplifyDocsMcpServer.run
  runs,       \* how many times the process has been started
  firstRoot,  \* the documents left by the first run's sync when no step of it
              \* failed, and the upstream version when that run started
  consoleLog, \* the global console.log: the function the process started with
              \* ("original") or a safeLog closure of setupWithGit ("safeLog")
  files,      \* the cache directory: file name (key) -> [data, mtime]
  now,        \* Date.now(), in milliseconds
  cacheOp,    \* the SearchCache call that returned last, and the one before it
  firstReq,   \* the first executeDocsSearch call of the process and its response
  lastReq,    \* the executeDocsSearch call that returned last
  input,      \* arguments handed to a pure function under examination
  output,     \* what it returned
  headingCache \* the heading caches of the server: the index objects built so
              \* far (indexes, an object being its position), this.headingIndex,
              \* this.lastHeadingIndexUpdate, this.sessionCaches, and the
              \* getHeadingIndex call that returned last (lastGet)

\* the state of the synchroniser and the state of query answering
syncVars == <<config, root, remoteVer, startup, refreshes, lastRefresh, mainPc, runs, firstRoot,
              consoleLog>>
queryVars == <<files, now, cacheOp, firstReq, lastReq, input, output, headingCache>>
vars == <<syncVars, queryVars>>

\* ------------------------------------------------------------ file system
\* (mutation) the directory is created but nothing in it is removed
EmptyDirKeeps(r) == [r EXCEPT !.exists = TRUE]

\* fs.emptyDir: creates the directory if needed and removes every item in it
EmptyDir(r) ==
  [exists |-> TRUE, entries |-> {}, git |-> "none", ver |-> 0, fetched |-> 0]

\* the outcomes of an fs.emptyDir that rejects: nothing was removed, or every
\* item was removed but the one that could not be
EmptyDirFailures(r) ==
  {r} \cup {[r EXCEPT !.entries = {e}, !.git = "none"] : e \in r.entries}
      \cup (IF r.git = "none" THEN {}
            ELSE {[r EXCEPT !.entries = {}, !.git = "broken"]})

\* fs.ensureDir
EnsureDir(r) == [r EXCEPT !.exists = TRUE]

\* fs.remove of one entry
Remove(r, e) == [r EXCEPT !.entries = @ \ {e}]

\* isDirectoryEmpty: a missing directory counts as empty
isDirectoryEmpty(r) ==
  IF ~r.exists THEN TRUE ELSE (r.entries = {} /\ r.git = "none")

\* isRepo of setupWithGit: the directory exists, holds .git, and git accepts it
isRepo(r) == r.exists /\ r.git # "none" /\ r.git = "valid"

\* the documents of the corpus (everything but the cache directory)
Corpus(r) == [files |-> r.entries \ {CacheDir}, git |-> r.git, ver |-> r.ver]


\* -------------------------------------------------------------- decisions
\* (mutation) the comparison lets interval 0 through
UseGitFromZero(interval) == interval >= 0

\* setupGitRepo, line 29: git clone/pull when auto-update is enabled
UseGit(interval) == interval > 0

\* setupWithTarball, line 272: the URL matches github.com/<owner>/<repo>
IsGitHubUrl(url) == url = "github"

\* setupWithTarball, line 283: config.gitRef || 'main'
DefaultRef(gitRef) == IF gitRef = "" THEN "main" ELSE gitRef

\* (mutation) every error that is not retried ends in the placeholder
CatchBranchPlaceholder(ref, err) ==
  IF ref = "main" /\ err = "404" THEN "retry" ELSE "placeholder"

\* (mutation) every failure of the first attempt on 'main' is retried
CatchBranchRetryAll(ref, err) ==
  IF ref = "main" THEN "retry"
  ELSE IF err = "nospace" THEN "placeholder"
  ELSE "git"

\* setupWithTarball, lines 332-380: what the handler of a failed first
\* download attempt does with the error
CatchBranch(ref, err) ==
  IF ref = "main" /\ err = "404" THEN "retry"
  ELSE IF err = "nospace" THEN "placeholder"
  ELSE "git"

\* (mutation) a refresh that finds no working copy clones like a first call
GitBranchCloneOnUpdate(repo, empty, isUpdate) ==
  IF ~repo \/ empty THEN "clone"
  ELSE (IF isUpdate THEN "refresh" ELSE "skip")

\* setupWithGit, lines 107, 108, 225, 247: the branch taken after the checks
GitBranch(repo, empty, isUpdate) ==
  IF ~repo \/ empty
    THEN (IF isUpdate THEN "cannotUpdate" ELSE "clone")
    ELSE (IF isUpdate THEN "refresh" ELSE "skip")

\* (mutation) the directory is cleared on the skip path as well
SkipCloneClears(r) == [r EXCEPT !.entries = {}, !.git = "none", !.ver = 0, !.fetched = 0]

\* setupWithGit, lines 247-251: an existing working copy is left alone
SkipClone(r) == r

\* (mutation) pull also when the status reports nothing behind
ShouldPullAlways(behind) == behind >= 0

\* setupWithGit, line 235
ShouldPull(behind) == behind > 0

\* (mutation) a rejected fetch is swallowed on its own and the status check follows
OnGitErrorFetchContinues(step) == IF step = "fetch" THEN "status" ELSE "done"

\* setupWithGit, lines 244-246: an error of fetch, status or pull leaves the
\* try block; the position the call continues at
OnGitError(step) == "done"

\* a successful git clone --branch ref --depth 1 into the directory
CloneInto(r, v) ==
  [exists |-> TRUE, entries |-> r.entries \cup RemoteTree, git |-> "valid",
   ver |-> v, fetched |-> v]

\* a successful download and extraction (tar.x with strip 1) into the directory
ExtractInto(r, v) ==
  [r EXCEPT !.exists = TRUE, !.entries = @ \cup RemoteTree, !.ver = v]

\* the directory removed first for a generation (lines 143-152, 169-173)
PagesTarget(gen) == IF gen = "gen1" THEN PlatformDir ELSE Gen1Dir

\* fs.pathExists(src/fragments)
FragmentsExists(r) == r.entries \cap (FragmentDirs \cup {FragmentsFile}) # {}

\* the fragment directories removed for a generation (lines 155-164, 191-207):
\* gen1 removes gen2; gen2 removes every subdirectory but gen2
FragmentTargets(gen, r) ==
  IF gen = "gen1" THEN r.entries \cap {Gen2FragmentsDir}
  ELSE (r.entries \cap FragmentDirs) \ {Gen2FragmentsDir}

\* the subtrees the commits brought by one pull may touch: none, one, or all
PullChanges == {{}, RemoteTree} \cup {{e} : e \in RemoteTree}

\* what an extraction that fails has written by then: nothing, one subtree, or all
PartialExtractions == {{}, RemoteTree} \cup {{e} : e \in RemoteTree}

\* the pruning postcondition of a generation
Pruned(gen, r) ==
  CASE gen = "gen1" -> PlatformDir \notin r.entries /\ Gen2FragmentsDir \notin r.entries
    [] gen = "gen2" -> Gen1Dir \notin r.entries
                       /\ (r.entries \cap FragmentDirs) \subseteq {Gen2FragmentsDir}
    [] OTHER -> TRUE

\* ------------------------------------------------------------------ calls
IdleCall ==
  [pc |-> "idle", isUpdate |-> FALSE, ref |-> "", attempt |-> 0, err |-> "none",
   result |-> "none", first |-> "none", gitEntered |-> FALSE, cloneFailed |-> FALSE,
   dlFailed |-> FALSE, firstErr |-> "none", acquired |-> "none", clean |-> TRUE,
   failed |-> FALSE, behind |-> -1, pullIssued |-> FALSE, wrote |-> FALSE,
   placeholder |-> FALSE, savedLog |-> "original", caught |-> FALSE]

NewCall(isUpdate) == [IdleCall EXCEPT !.pc = "entry", !.isUpdate = isUpdate]

\* the calls that can take a step: <<kind, record>>
CallKinds == {"startup", "refresh"}
CallsOf(kind) ==
  IF kind = "startup" THEN {<<kind, startup>>}
  ELSE {<<kind, k>> : k \in BagToSet(refreshes)}

\* call c moves on with record k, leaving the directory as r. A call that
\* enters setupWithGit replaces console.log by its safeLog (git.ts line 92); one
\* that leaves it puts back what it saved (lines 112, 254), unless it leaves
\* through the handler of line 255, which assigns console.log to itself
Step(c, k, r) ==
  LET k2 == [k EXCEPT !.wrote = @ \/ (Corpus(r) # Corpus(root))] IN
  /\ root' = r
  /\ consoleLog' = IF k.gitEntered /\ ~c[2].gitEntered THEN "safeLog"
                   ELSE IF k.pc = "done" /\ k.gitEntered /\ ~k.caught THEN k.savedLog
                   ELSE consoleLog
  /\ IF c[1] = "startup"
       THEN /\ startup' = k2
            /\ UNCHANGED <<refreshes, lastRefresh>>
       ELSE /\ refreshes' = IF k2.pc = "done"
                              THEN refreshes (-) SetToBag({c[2]})
                              ELSE (refreshes (-) SetToBag({c[2]})) (+) SetToBag({k2})
            /\ lastRefresh' = IF k2.pc = "done" THEN k2 ELSE lastRefresh
            /\ UNCHANGED startup

Return(k) == [k EXCEPT !.pc = "done", !.result = "returned"]
Throw(k) == [k EXCEPT !.pc = "done", !.result = "threw", !.clean = FALSE]
\* fetch, status or pull rejected: the handler of lines 244-246 logs it
GitFail(k, step) ==
  [k EXCEPT !.pc = OnGitError(step), !.failed = TRUE, !.clean = FALSE,
            !.result = IF OnGitError(step) = "done" THEN "returned" ELSE @]
EnterGit(k) ==
  [k EXCEPT !.pc = "gitCheck", !.gitEntered = TRUE, !.savedLog = consoleLog,
            !.first = IF @ = "none" THEN "git" ELSE @]

\* query answering at rest: what the synchroniser's behaviours hold it at
NoOp == [op |-> "none"]
NoReq == [state |-> "none"]
NoValue == [fn |-> "none"]
QueryIdle ==
  /\ files = << >>
  /\ now = 0
  /\ cacheOp = NoOp
  /\ firstReq = NoReq
  /\ lastReq = NoReq
  /\ input = NoValue
  /\ output = NoValue
  /\ headingCache = [indexes |-> <<[keywords |-> {}, builtAt |-> 0]>>,
                     headingIndex |-> 1, lastHeadingIndexUpdate |-> 0,
                     sessionCaches |-> << >>, lastGet |-> NoReq]

Urls == {"none", "github", "other"}
Refs == {"main", "next"}
Intervals == {0, 60}
Generations == {"gen1", "gen2", "both"}

FreshRoot == [exists |-> TRUE, entries |-> {CacheDir}, git |-> "none", ver |-> 0, fetched |-> 0]
InitRoots ==
  { FreshRoot,
    [FreshRoot EXCEPT !.entries = {CacheDir, LegacyFile}],
    [FreshRoot EXCEPT !.entries = {CacheDir, LegacyFile}, !.git = "broken"],
    [FreshRoot EXCEPT !.entries = RemoteTree \cup {CacheDir}],
    [FreshRoot EXCEPT !.entries = RemoteTree \cup {CacheDir}, !.git = "valid"] }

\* the configurations: the ref is varied where the code reads it (line 334, the
\* retry of the snapshot download), and is the default elsewhere; the kind of
\* URL is varied where the code reads it (line 272, under interval 0), and
\* with a positive interval only its presence is tested (line 22)
Configs ==
  {cf \in [gitUrl : Urls, gitRef : Refs, autoUpdateInterval : Intervals,
           amplifyGeneration : Generations] :
     /\ cf.gitRef = "main" \/ (cf.gitUrl = "github" /\ cf.autoUpdateInterval = 0)
     /\ cf.gitUrl = "other" => cf.autoUpdateInterval = 0}

Init ==
  /\ config \in Configs
  /\ root \in InitRoots
  /\ remoteVer = 1
  /\ startup = IdleCall
  /\ refreshes = EmptyBag
  /\ lastRefresh = IdleCall
  /\ mainPc = "boot"
  /\ runs = 1
  /\ firstRoot = [set |-> FALSE, corpus |-> Corpus(FreshRoot), remote |-> 0]
  /\ consoleLog = "original"
  /\ QueryIdle

\* ----------------------------------------------------------- setupGitRepo
\* lines 18-34: skip without a URL, otherwise pick the strategy
SetupGitRepo(c) ==
  /\ c[2].pc = "entry"
  /\ LET k == c[2] IN
       IF config.gitUrl = "none" THEN Step(c, Return(k), root)
       ELSE IF UseGit(config.autoUpdateInterval) THEN Step(c, EnterGit(k), root)
       ELSE Step(c, [k EXCEPT !.pc = "tarStart"], root)
  /\ UNCHANGED <<queryVars, config, remoteVer, mainPc, runs, firstRoot>>

\* ------------------------------------------------------- setupWithTarball
\* lines 267-283 and the first call of downloadAttempt
TarballStart(c) ==
  /\ c[2].pc = "tarStart"
  /\ LET k == c[2] IN
       IF ~IsGitHubUrl(config.gitUrl) THEN Step(c, EnterGit(k), root)
       ELSE Step(c, [k EXCEPT !.pc = "dlEmpty", !.ref = DefaultRef(config.gitRef),
                              !.attempt = 1, !.first = "download"], root)
  /\ UNCHANGED <<queryVars, config, remoteVer, mainPc, runs, firstRoot>>

\* downloadAttempt, line 292: clear the directory; a rejection is not wrapped
DownloadEmptyDir(c) ==
  /\ c[2].pc = "dlEmpty"
  /\ LET k == c[2] IN
       \/ Step(c, [k EXCEPT !.pc = "dlExtract"], EmptyDir(root))
       \/ \E r \in EmptyDirFailures(root), e \in {"nospace", "other"} :
            Step(c, [k EXCEPT !.pc = "dlCatch", !.err = e, !.clean = FALSE], r)
  /\ UNCHANGED <<queryVars, config, remoteVer, mainPc, runs, firstRoot>>

\* downloadAttempt, lines 294-327: fetch the archive and extract it
DownloadExtract(c) ==
  /\ c[2].pc = "dlExtract"
  /\ LET k == c[2] IN
       \/ Step(c, Return([k EXCEPT !.acquired = "snapshot"]), ExtractInto(root, remoteVer))
       \/ Step(c, [k EXCEPT !.pc = "dlCatch", !.err = "404", !.clean = FALSE], root)
       \/ \E w \in PartialExtractions, e \in {"nospace", "other"} :
            Step(c, [k EXCEPT !.pc = "dlCatch", !.err = e, !.clean = FALSE],
                 [root EXCEPT !.entries = @ \cup w])
  /\ UNCHANGED <<queryVars, config, remoteVer, mainPc, runs, firstRoot>>

\* lines 332-380: the handlers of a failed attempt
DownloadCatch(c) ==
  /\ c[2].pc = "dlCatch"
  /\ LET k == c[2]
         b == IF k.attempt = 1 THEN CatchBranch(k.ref, k.err) ELSE "git"
         k1 == IF k.attempt = 1 THEN [k EXCEPT !.firstErr = k.err] ELSE k
     IN CASE b = "retry" ->
               Step(c, [k1 EXCEPT !.pc = "dlEmpty", !.ref = "master", !.attempt = 2,
                                  !.err = "none"], root)
          [] b = "placeholder" ->
               Step(c, [k1 EXCEPT !.pc = "phEnsure", !.dlFailed = TRUE], root)
          [] OTHER ->
               Step(c, EnterGit([k1 EXCEPT !.dlFailed = TRUE]), root)
  /\ UNCHANGED <<queryVars, config, remoteVer, mainPc, runs, firstRoot>>

\* line 355: fs.ensureDir before the placeholder; a rejection leaves setupGitRepo
PlaceholderEnsureDir(c) ==
  /\ c[2].pc = "phEnsure"
  /\ LET k == c[2] IN
       \/ Step(c, [k EXCEPT !.pc = "phWrite"], EnsureDir(root))
       \/ Step(c, Throw(k), root)
  /\ UNCHANGED <<queryVars, config, remoteVer, mainPc, runs, firstRoot>>

\* lines 356-359: fs.writeFile of README.md; a rejection leaves setupGitRepo
PlaceholderWrite(c) ==
  /\ c[2].pc = "phWrite"
  /\ LET k == c[2] IN
       \/ /\ root.exists
          /\ Step(c, Return([k EXCEPT !.placeholder = TRUE]),
                  [root EXCEPT !.entries = @ \cup {Placeholder}])
       \/ Step(c, Throw(k), root)
  /\ UNCHANGED <<queryVars, config, remoteVer, mainPc, runs, firstRoot>>

\* ----------------------------------------------------------- setupWithGit
\* lines 93-114, 225, 247-251: the checks and the branch on their result
GitCheck(c) ==
  /\ c[2].pc = "gitCheck"
  /\ LET k == c[2]
         b == GitBranch(isRepo(root), isDirectoryEmpty(root), k.isUpdate)
     IN CASE b = "cannotUpdate" -> Step(c, Return(k), root)
          [] b = "clone" -> Step(c, [k EXCEPT !.pc = "gitEmpty"], root)
          [] b = "refresh" -> Step(c, [k EXCEPT !.pc = "fetch"], root)
          [] OTHER -> Step(c, Return(k), SkipClone(root))
  /\ UNCHANGED <<queryVars, config, remoteVer, mainPc, runs, firstRoot>>

\* line 121: clear the directory; a rejection is caught at line 255
GitEmptyDir(c) ==
  /\ c[2].pc = "gitEmpty"
  /\ LET k == c[2] IN
       \/ Step(c, [k EXCEPT !.pc = "gitClone"], EmptyDir(root))
       \/ \E r \in EmptyDirFailures(root) :
            Step(c, Return([k EXCEPT !.clean = FALSE, !.caught = TRUE]), r)
  /\ UNCHANGED <<queryVars, config, remoteVer, mainPc, runs, firstRoot>>

\* lines 123-136: the clone; a failed clone removes what it created
GitClone(c) ==
  /\ c[2].pc = "gitClone"
  /\ LET k == c[2] IN
       \/ Step(c, [k EXCEPT !.acquired = "clone",
                            !.pc = IF config.amplifyGeneration = "both"
                                     THEN "done" ELSE "prunePages",
                            !.result = IF config.amplifyGeneration = "both"
                                         THEN "returned" ELSE @],
               CloneInto(root, remoteVer))
       \/ \E e \in BOOLEAN :
            Step(c, [k EXCEPT !.pc = "cloneCatch", !.clean = FALSE, !.cloneFailed = TRUE],
                 [root EXCEPT !.exists = e])
  /\ UNCHANGED <<queryVars, config, remoteVer, mainPc, runs, firstRoot>>

\* lines 139-152 (gen1) and 165-173 (gen2): remove the other generation's pages;
\* a rejected removal is caught at line 220
PrunePages(c) ==
  /\ c[2].pc = "prunePages"
  /\ LET k == c[2]
         t == PagesTarget(config.amplifyGeneration)
     IN \/ Step(c, [k EXCEPT !.pc = "pruneFragments"], Remove(root, t))
        \/ /\ t \in root.entries
           /\ Step(c, [k EXCEPT !.pc = "cloneCatch", !.clean = FALSE], root)
  /\ UNCHANGED <<queryVars, config, remoteVer, mainPc, runs, firstRoot>>

\* lines 154-164 (gen1) and 175-218 (gen2): remove fragment directories. For
\* gen1 a rejected removal is caught at line 220; for gen2 a rejected removal of
\* one directory is logged and the loop goes on, a rejected readdir or stat is
\* caught at line 220
PruneFragments(c) ==
  /\ c[2].pc = "pruneFragments"
  /\ LET k == c[2]
         gen == config.amplifyGeneration
         ts == FragmentTargets(gen, root)
     IN \/ Step(c, Return(k), [root EXCEPT !.entries = @ \ ts])
        \/ /\ gen = "gen1" /\ ts # {}
           /\ Step(c, [k EXCEPT !.pc = "cloneCatch", !.clean = FALSE], root)
        \/ /\ gen = "gen2" /\ FragmentsExists(root)
           /\ Step(c, [k EXCEPT !.pc = "cloneCatch", !.clean = FALSE], root)
        \/ /\ gen = "gen2"
           /\ \E stuck \in (SUBSET ts) \ {{}} :
                Step(c, Return([k EXCEPT !.clean = FALSE]),
                     [root EXCEPT !.entries = @ \ (ts \ stuck)])
  /\ UNCHANGED <<queryVars, config, remoteVer, mainPc, runs, firstRoot>>

\* lines 220-224: log and fs.ensureDir; a rejection is caught at line 255
CloneCatch(c) ==
  /\ c[2].pc = "cloneCatch"
  /\ LET k == c[2] IN
       \/ Step(c, Return(k), EnsureDir(root))
       \/ Step(c, Return([k EXCEPT !.caught = TRUE]), root)
  /\ UNCHANGED <<queryVars, config, remoteVer, mainPc, runs, firstRoot>>

\* line 230: git fetch --quiet moves the remote-tracking ref
GitFetch(c) ==
  /\ c[2].pc = "fetch"
  /\ LET k == c[2] IN
       \/ Step(c, [k EXCEPT !.pc = "status"], [root EXCEPT !.fetched = remoteVer])
       \/ Step(c, GitFail(k, "fetch"), root)
  /\ UNCHANGED <<queryVars, config, remoteVer, mainPc, runs, firstRoot>>

\* lines 233-243: git status, and the decision to pull
GitStatus(c) ==
  /\ c[2].pc = "status"
  /\ LET k == c[2]
         behind == IF root.fetched > root.ver THEN root.fetched - root.ver ELSE 0
     IN \/ IF ShouldPull(behind)
             THEN Step(c, [k EXCEPT !.pc = "pull", !.behind = behind, !.pullIssued = TRUE], root)
             ELSE Step(c, Return([k EXCEPT !.behind = behind]), root)
        \/ Step(c, GitFail(k, "status"), root)
  /\ UNCHANGED <<queryVars, config, remoteVer, mainPc, runs, firstRoot>>

\* line 239: git pull origin ref --quiet. A pull that brings new commits
\* rewrites what they touch, files of removed subtrees included
GitPull(c) ==
  /\ c[2].pc = "pull"
  /\ LET k == c[2] IN
       \/ \E added \in (IF root.ver < remoteVer THEN PullChanges ELSE {{}}) :
            /\ Step(c, Return(k),
                    [root EXCEPT !.entries = @ \cup added, !.ver = remoteVer,
                                 !.fetched = remoteVer])
            /\ firstRoot' = IF Corpus(root') # Corpus(root)
                              THEN [firstRoot EXCEPT !.set = FALSE] ELSE firstRoot
       \/ /\ Step(c, GitFail(k, "pull"), root)
          /\ UNCHANGED firstRoot
  /\ UNCHANGED <<queryVars, config, remoteVer, mainPc, runs>>

\* ------------------------------------------------ AmplifyDocsMcpServer.run
\* (mutation) setupGitRepo(config) is called and not awaited
RunUnawaited ==
  /\ mainPc = "boot"
  /\ mainPc' = "loading"
  /\ startup' = IF config.gitUrl # "none" THEN NewCall(FALSE) ELSE startup
  /\ firstRoot' = IF runs = 1 THEN [firstRoot EXCEPT !.remote = remoteVer] ELSE firstRoot
  /\ UNCHANGED <<queryVars, config, root, remoteVer, refreshes, lastRefresh, runs, consoleLog>>

\* index.ts lines 1306-1322: the initial setupGitRepo(config) when a URL is set;
\* without one run goes on to load the directory structure
Run ==
  /\ mainPc = "boot"
  /\ IF config.gitUrl # "none"
       THEN /\ mainPc' = "acquiring"
            /\ startup' = NewCall(FALSE)
       ELSE /\ mainPc' = "loading"
            /\ UNCHANGED startup
  /\ firstRoot' = IF runs = 1 THEN [firstRoot EXCEPT !.remote = remoteVer] ELSE firstRoot
  /\ UNCHANGED <<queryVars, config, root, remoteVer, refreshes, lastRefresh, runs, consoleLog>>

\* index.ts lines 1322-1329 and 1352-1355: setupGitRepo has settled; a
\* rejection ends the process, otherwise the timer is set and run goes on to
\* load the directory structure
AfterSetup ==
  /\ mainPc = "acquiring"
  /\ startup.pc = "done"
  /\ mainPc' = IF startup.result = "threw" THEN "exited" ELSE "loading"
  /\ firstRoot' = IF ~firstRoot.set /\ runs = 1 /\ startup.clean
                     /\ startup.result = "returned"
                    THEN [firstRoot EXCEPT !.set = TRUE, !.corpus = Corpus(root)]
                    ELSE firstRoot
  /\ UNCHANGED <<queryVars, config, root, remoteVer, startup, refreshes, lastRefresh, runs, consoleLog>>

\* index.ts lines 1325-1329: a timer tick calls setupGitRepo(config, true),
\* whatever the calls of earlier ticks are doing. The first tick comes a whole
\* interval (one minute or more) after run set the timer, and run has loaded
\* the directory structure and connected by then
Tick ==
  /\ mainPc = "serving"
  /\ config.gitUrl # "none"
  /\ config.autoUpdateInterval > 0
  /\ BagCardinality(refreshes) < MaxRefresh
  /\ refreshes' = refreshes (+) SetToBag({NewCall(TRUE)})
  /\ UNCHANGED <<queryVars, config, root, remoteVer, startup, lastRefresh, mainPc, runs, firstRoot, consoleLog>>

\* index.ts lines 1331-1350 (http-adapter.ts lines 355-370): the directory
\* structure is loaded (a failed load is logged and run goes on), the heading
\* index is built, and then the transport is connected (the port is opened)
LoadAndConnect ==
  /\ mainPc = "loading"
  /\ mainPc' = "serving"
  /\ UNCHANGED <<queryVars, config, root, remoteVer, startup, refreshes, lastRefresh, runs, firstRoot, consoleLog>>

\* a commit is pushed to the upstream ref
RemotePush ==
  /\ remoteVer < MaxRemoteVer
  /\ remoteVer' = remoteVer + 1
  /\ UNCHANGED <<queryVars, config, root, startup, refreshes, lastRefresh, mainPc, runs, firstRoot, consoleLog>>

\* the process is started again on the same disk: index.ts line 76 ensures the
\* data directory, line 134 (SearchCache, cache.js line 15) the cache directory
Restart ==
  /\ mainPc \in {"serving", "exited"}
  /\ refreshes = EmptyBag
  /\ runs < MaxRuns
  /\ runs' = runs + 1
  /\ mainPc' = "boot"
  /\ startup' = IdleCall
  /\ lastRefresh' = IdleCall
  /\ root' = [root EXCEPT !.exists = TRUE, !.entries = @ \cup {CacheDir}]
  /\ consoleLog' = "original"
  /\ UNCHANGED <<queryVars, config, remoteVer, refreshes, firstRoot>>

Next ==
  \/ Run
  \/ AfterSetup
  \/ LoadAndConnect
  \/ RemotePush
  \/ Restart
  \/ Tick
  \/ \E kind \in CallKinds : \E c \in CallsOf(kind) : SetupGitRepo(c)
  \/ \E kind \in CallKinds : \E c \in CallsOf(kind) : TarballStart(c)
  \/ \E kind \in CallKinds : \E c \in CallsOf(kind) : DownloadEmptyDir(c)
  \/ \E kind \in CallKinds : \E c \in CallsOf(kind) : DownloadExtract(c)
  \/ \E kind \in CallKinds : \E c \in CallsOf(kind) : DownloadCatch(c)
  \/ \E kind \in CallKinds : \E c \in CallsOf(kind) : PlaceholderEnsureDir(c)
  \/ \E kind \in CallKinds : \E c \in CallsOf(kind) : PlaceholderWrite(c)
  \/ \E kind \in CallKinds : \E c \in CallsOf(kind) : GitCheck(c)
  \/ \E kind \in CallKinds : \E c \in CallsOf(kind) : GitEmptyDir(c)
  \/ \E kind \in CallKinds : \E c \in CallsOf(kind) : GitClone(c)
  \/ \E kind \in CallKinds : \E c \in CallsOf(kind) : PrunePages(c)
  \/ \E kind \in CallKinds : \E c \in CallsOf(kind) : PruneFragments(c)
  \/ \E kind \in CallKinds : \E c \in CallsOf(kind) : CloneCatch(c)
  \/ \E kind \in CallKinds : \E c \in CallsOf(kind) : GitFetch(c)
  \/ \E kind \in CallKinds : \E c \in CallsOf(kind) : GitStatus(c)
  \/ \E kind \in CallKinds : \E c \in CallsOf(kind) : GitPull(c)

Spec == Init /\ [][Next]_vars

TypeOK ==
  /\ root.entries \subseteq Entries
  /\ root.git \in {"none", "broken", "valid"}
  /\ remoteVer \in 1..MaxRemoteVer
  /\ mainPc \in {"boot", "acquiring", "loading", "serving", "exited"}
  /\ runs \in 1..MaxRuns

\* the refresh calls in flight and the one that completed last
RefreshCalls == BagToSet(refreshes) \cup {lastRefresh}

\* the startup call has just settled and run has not gone on yet
StartupSettled == mainPc = "acquiring" /\ startup.pc = "done"

\* ------------------------------------------------------------------ claims

\* C1: setupGitRepo never throws or rejects to its caller, whatever step fails.
C1_NeverThrows ==
  /\ startup.result # "threw"
  /\ \A k \in RefreshCalls : k.result # "threw"

\* C2: at most one refresh (setupGitRepo(config, true)) is in progress at any time.
C2_SingleFlight == BagCardinality(refreshes) <= 1

\* C3: when the snapshot download fails and the clone fallback fails too, the
\* sync ends with the placeholder README.md present in an existing root.
C3_PlaceholderWhenAllFail ==
  (StartupSettled /\ startup.dlFailed /\ startup.cloneFailed)
    => (root.exists /\ Placeholder \in root.entries)

\* C4 (as stated): whenever the download finally fails, the incremental strategy
\* is run before the sync gives up or writes a placeholder.
C4_GitBeforeGivingUp ==
  (startup.dlFailed /\ startup.pc \in {"phEnsure", "phWrite", "done"})
    => startup.gitEntered

\* C4 (amended): when the download finally fails, the incremental strategy is
\* run before the sync gives up, unless the first attempt failed with an
\* exhausted-storage error: then the placeholder is written with no clone attempt.
C4_GitUnlessNoSpace ==
  (startup.dlFailed /\ startup.pc \in {"phEnsure", "phWrite", "done"})
    => (startup.gitEntered <=> startup.firstErr # "nospace")

C4_Witness ==
  startup.dlFailed /\ startup.attempt = 2 /\ startup.firstErr = "404"
    /\ startup.pc = "gitClone"

\* C5: after a successful first-time acquisition under either strategy the
\* corpus satisfies the pruning postcondition of the configured generation.
C5_PrunedAfterAcquisition ==
  (StartupSettled /\ startup.acquired # "none" /\ startup.clean)
    => Pruned(config.amplifyGeneration, root)

\* C6: with the remote unchanged and no step failing, a second
\* setupGitRepo(config, false) leaves the documents, the working-copy status and
\* the version of the corpus as the first left them.
C6_Idempotent ==
  (firstRoot.set /\ firstRoot.remote = remoteVer /\ runs > 1 /\ StartupSettled
     /\ startup.clean /\ startup.result = "returned")
    => Corpus(root) = firstRoot.corpus

C6_Witness ==
  firstRoot.set /\ firstRoot.remote = remoteVer /\ runs > 1 /\ StartupSettled
    /\ startup.clean /\ startup.acquired = "snapshot" /\ Corpus(root).files = RemoteTree

\* C7: a refresh in which fetch, status or pull fails returns normally, has
\* changed nothing of the corpus, and leaves a usable working copy.
C7_RefreshFailureHarmless ==
  \A k \in RefreshCalls :
    k.failed => /\ ~k.wrote
                /\ k.pc = "done" /\ k.result = "returned"
                /\ isRepo(root) /\ ~isDirectoryEmpty(root)

C7_Witness ==
  lastRefresh.failed /\ lastRefresh.pullIssued /\ lastRefresh.pc = "done"

\* C8: a refresh issues a pull if and only if the status after the fetch
\* reported the local ref behind; a refresh that found it not behind has
\* changed no corpus file, and only a pull changes one.
C8_PullIffBehind ==
  \A k \in RefreshCalls :
    /\ k.pullIssued <=> k.behind > 0
    /\ k.behind = 0 => ~k.wrote
    /\ k.wrote => k.pullIssued

C8_Witness ==
  lastRefresh.pullIssued /\ lastRefresh.wrote /\ lastRefresh.behind > 0
    /\ ~lastRefresh.failed

\* C9 (as stated): the first strategy of a sync depends on the interval alone:
\* incremental when it is positive, snapshot download when it is zero.
C9_IntervalOnly ==
  startup.first # "none"
    => startup.first = (IF config.autoUpdateInterval > 0 THEN "git" ELSE "download")

\* C9 (amended): a sync starts with the incremental strategy when the interval
\* is positive, and also when it is zero and the locator is not a GitHub URL;
\* it starts with the snapshot download when the interval is zero and the
\* locator is a GitHub URL; without a locator no call is made at all.
C9_IntervalAndLocator ==
  /\ startup.first # "none"
       => startup.first = (IF config.autoUpdateInterval > 0 \/ config.gitUrl # "github"
                             THEN "git" ELSE "download")
  /\ \A k \in RefreshCalls : k.first \in {"none", "git"}
  /\ config.gitUrl = "none" => (startup.pc = "idle" /\ refreshes = EmptyBag)

C9_Witness ==
  config.autoUpdateInterval = 0 /\ config.gitUrl = "other"
    /\ startup.first = "git" /\ startup.pc = "gitClone"

\* C10: the clone and every download attempt start from a root that has been
\* emptied, and a completed acquisition holds nothing of what was there before.
C10_ClearedBeforeWrite ==
  /\ startup.pc \in {"gitClone", "dlExtract"}
       => (root.exists /\ root.entries = {} /\ root.git = "none")
  /\ (StartupSettled /\ startup.acquired # "none")
       => root.entries \subseteq RemoteTree

C10_Witness ==
  StartupSettled /\ startup.acquired = "snapshot" /\ startup.attempt = 2
    /\ root.entries = RemoteTree

\* C26: the process ends only when the data directory cannot be created (index.ts
\* lines 74-84, before run; every run of the model starts with the directory
\* made): no acquisition failure, at startup or in a refresh, ends the process.
C26_AcquisitionNeverExits ==
  /\ ~(mainPc = "exited" /\ startup.result = "threw")
  /\ (\E k \in RefreshCalls : k.result = "threw") => mainPc # "exited"

\* C33: a sync makes at most two download attempts: the second only when the
\* first was for the ref 'main' and failed with 404, and it targets 'master';
\* no other failure of an attempt is retried.
C33_AtMostOneRetry ==
  \A k \in RefreshCalls \cup {startup} :
    /\ k.attempt <= 2
    /\ k.attempt = 2 => /\ DefaultRef(config.gitRef) = "main"
                        /\ k.firstErr = "404"
                        /\ k.ref = "master"
    /\ (k.dlFailed /\ k.attempt = 1) => (k.ref # "main" \/ k.firstErr # "404")

C33_Witness ==
  startup.attempt = 2 /\ startup.ref = "master" /\ startup.dlFailed
    /\ startup.pc = "done"

\* C34: the cache directory made at construction is still in the corpus root
\* when the initial acquisition has completed, under either strategy.
C34_CacheDirSurvives ==
  (StartupSettled /\ startup.result = "returned" /\ startup.acquired # "none")
    => CacheDir \in root.entries

\* C35: once the first acquisition has pruned the corpus for the configured
\* generation, the pruning postcondition holds for as long as the server
\* runs, whatever the later refreshes pull.
C35_PruningKept ==
  (mainPc = "serving" /\ startup.acquired = "clone" /\ startup.clean
     /\ startup.result = "returned")
    => Pruned(config.amplifyGeneration, root)

\* C37: a refresh call never clears the corpus root, never clones and never
\* prunes; it changes a corpus file only through a pull, so a refresh that
\* found no working copy, or an empty root, has changed none.
C37_RefreshOnlyPulls ==
  \A k \in RefreshCalls :
    k.pc # "idle" =>
      /\ k.isUpdate
      /\ k.pc \in {"entry", "gitCheck", "fetch", "status", "pull", "done"}
      /\ k.acquired = "none" /\ ~k.cloneFailed /\ k.attempt = 0
      /\ k.wrote => k.pullIssued
      /\ (k.pc = "done" /\ k.behind = -1 /\ ~k.failed) => ~k.wrote

C37_Witness ==
  /\ lastRefresh.pc = "done" /\ lastRefresh.gitEntered
  /\ lastRefresh.behind = -1 /\ ~lastRefresh.failed
  /\ ~isRepo(root) /\ startup.cloneFailed

\* C38: queries are served only once startup has finished: the transport is
\* connected (the port opened) by the step that follows the load of the
\* directory structure, and by then the initial setupGitRepo(config), when a
\* URL is configured, has completed.
C38_ServeAfterStartup ==
  [][(mainPc' = "serving" /\ mainPc # "serving")
       => /\ mainPc = "loading"
          /\ config.gitUrl # "none"
               => (startup.pc = "done" /\ startup.result = "returned")]_vars

C38_Witness ==
  mainPc = "serving" /\ startup.pc = "done" /\ startup.acquired = "clone"
    /\ refreshes = EmptyBag /\ lastRefresh.pc = "idle"

\* C36: whenever no setupGitRepo call is in progress, the global console.log
\* is the function it was before the first call started, whatever path each
\* call took and however the calls overlapped.
C36_ConsoleLogRestored ==
  (startup.pc \in {"idle", "done"} /\ refreshes = EmptyBag)
    => consoleLog = "original"

\* ================================================= query answering
\* ------------------------------------------------------------ bounds
\* how many days the clock of a behaviour may advance
MaxDays == 1

\* ------------------------------------------ SearchCache (src/src/cache.js)
\* a value that may be missing (null in the code): the empty set, or {v}
Absent == {}
Some(v) == {v}

\* line 57: milliseconds are turned into minutes
MsPerMinute == 1000 * 60
\* line 60: the age, in minutes, below which an entry is served
CacheTtlMinutes == 24 * 60

\* _generateKey, lines 25-42: the file name is the md5 digest of the JSON text of
\* keyObj; the digest stands for the text it was taken of (no two texts of the
\* model collide).  semanticSearch, fuzzyMatch and includeCodeSnippets are
\* undefined in every options object of this server, and JSON.stringify drops them
GenerateKey(query, options) ==
  [query |-> query, path |-> options.path,
   maxTokens |-> options.maxTokens, skipTokens |-> options.skipTokens]

FreshAtLimit(mtime, t) == (t - mtime) <= CacheTtlMinutes * MsPerMinute
\* lines 57-60: ageInMinutes = (Date.now() - mtime) / (1000 * 60) < 24 * 60, a
\* division of reals: both sides are multiplied by the milliseconds of a minute
Fresh(mtime, t) == (t - mtime) < CacheTtlMinutes * MsPerMinute

WriteFileIfMissing(fs, key, v, t) ==
  [k \in DOMAIN fs \cup {key} |->
     IF k \in DOMAIN fs THEN fs[k] ELSE [data |-> v, mtime |-> t]]
\* fs.writeFile(cacheFile, results), line 84: the file is created or replaced,
\* and its modification time is the time of the write
WriteFile(fs, key, v, t) ==
  [k \in DOMAIN fs \cup {key} |->
     IF k = key THEN [data |-> v, mtime |-> t] ELSE fs[k]]

\* get, lines 50-70, on cache directory fs at time t; ioOk: neither statSync nor
\* readFile throws (what they throw is caught at line 65 and null is returned)
CacheGet(fs, query, options, t, ioOk) ==
  LET key == GenerateKey(query, options) IN
  IF key \in DOMAIN fs /\ ioOk /\ Fresh(fs[key].mtime, t)
    THEN Some(fs[key].data)
    ELSE Absent

\* set, lines 79-88; writeOk: writeFile resolves (a rejection is caught at line
\* 85 and logged)
CacheSet(fs, query, options, v, t, writeOk) ==
  IF writeOk THEN WriteFile(fs, GenerateKey(query, options), v, t) ELSE fs

\* clear, lines 94-100: fs.emptyDir(cacheDir)
CacheClear(fs, emptyOk) == IF emptyOk THEN << >> ELSE fs

\* ------------------------------- executeDocsSearch: the options it builds
\* config.dataDir
DataDir == "data"
\* index.ts line 377: the token budget of a page
PageSize == 25000
\* index.ts line 389: args.maxResults || 10
DefaultMaxResults == 10
\* a numeric argument the caller left out (undefined)
Unset == 0

Queries == {"auth", "gen1 cli"}
\* SearchArgs, index.ts lines 90-100, without sessionId, fullContent, filePath
\* (calls that carry them are answered by other code)
SearchArgsSet ==
  [query : Queries, page : {Unset, 2}, includeContent : BOOLEAN,
   maxResults : {Unset, 20}, filesOnly : BOOLEAN, useJson : BOOLEAN]

\* processAdvancedQuery, index.ts lines 1021-1030: returns its argument
ProcessAdvancedQuery(query) == query

\* index.ts lines 373-697: the options object handed to the cache and to the
\* matcher (rankingFunction and filterFunction are functions of the query and
\* the configuration; JSON.stringify drops them); a flag that is not set is
\* undefined in the code and FALSE here
BuildOptions(args) ==
  [path |-> DataDir,
   query |-> ProcessAdvancedQuery(args.query),
   maxTokens |-> PageSize,
   skipTokens |-> ((IF args.page = Unset THEN 1 ELSE args.page) - 1) * PageSize,
   maxResults |-> IF args.maxResults = Unset THEN DefaultMaxResults ELSE args.maxResults,
   includeMatchDetails |-> args.includeContent,
   includeContent |-> args.includeContent,
   filesOnly |-> args.filesOnly,
   json |-> args.useJson]

\* ---------------------------------------------- SearchCache, call by call
\* the synchroniser at rest while queries are answered
SyncAtRest ==
  /\ config = [gitUrl |-> "none", gitRef |-> "main", autoUpdateInterval |-> 0,
               amplifyGeneration |-> "gen2"]
  /\ root = FreshRoot
  /\ remoteVer = 1
  /\ startup = IdleCall
  /\ refreshes = EmptyBag
  /\ lastRefresh = IdleCall
  /\ mainPc = "serving"
  /\ runs = 1
  /\ firstRoot = [set |-> FALSE, corpus |-> Corpus(FreshRoot), remote |-> 0]
  /\ consoleLog = "original"

\* the arguments of the calls: two queries, and for each two options objects
\* that differ in maxResults
CacheOptions ==
  {BuildOptions(a) : a \in {x \in SearchArgsSet :
      /\ x.page = Unset /\ ~x.includeContent /\ ~x.filesOnly /\ ~x.useJson}}
CacheValues == {"", "Found 1 search results"}

\* the instants of a behaviour: the clock moves by a day, or by a day less a
\* millisecond
Day == CacheTtlMinutes * MsPerMinute
ClockSteps == {Day - 1, Day}

CacheInit == SyncAtRest /\ QueryIdle

\* what a get call remembers of the call before it
Before(op) ==
  IF op.op = "set"
    THEN [op |-> "set", query |-> op.query, options |-> op.options,
          value |-> op.value, wrote |-> op.wrote, at |-> op.at]
    ELSE NoOp

\* cache.set(query, options, results)
SetCall(query, options, v) ==
  /\ \E writeOk \in BOOLEAN :
       /\ files' = CacheSet(files, query, options, v, now, writeOk)
       /\ cacheOp' = [op |-> "set", query |-> query, options |-> options,
                      value |-> v, wrote |-> writeOk, at |-> now]
  /\ UNCHANGED <<syncVars, now, firstReq, lastReq, input, output, headingCache>>

\* cache.get(query, options): the directory is read, never written
GetCall(query, options) ==
  /\ \E ioOk \in (IF GenerateKey(query, options) \in DOMAIN files
                    THEN BOOLEAN ELSE {TRUE}) :
       cacheOp' = [op |-> "get", query |-> query, options |-> options,
                   result |-> CacheGet(files, query, options, now, ioOk),
                   threw |-> ~ioOk, at |-> now, filesBefore |-> files,
                   after |-> Before(cacheOp)]
  /\ UNCHANGED <<syncVars, files, now, firstReq, lastReq, input, output, headingCache>>

\* cache.clear()
ClearCall ==
  /\ \E emptyOk \in BOOLEAN :
       /\ files' = CacheClear(files, emptyOk)
       /\ cacheOp' = [op |-> "clear", emptied |-> emptyOk, at |-> now]
  /\ UNCHANGED <<syncVars, now, firstReq, lastReq, input, output, headingCache>>

\* time passes
Advance ==
  /\ \E d \in ClockSteps :
       /\ now + d <= MaxDays * Day
       /\ now' = now + d
  /\ UNCHANGED <<syncVars, files, cacheOp, firstReq, lastReq, input, output, headingCache>>

CacheNext ==
  \/ \E q \in Queries : \E o \in CacheOptions : \E v \in CacheValues : SetCall(q, o, v)
  \/ \E q \in Queries : \E o \in CacheOptions : GetCall(q, o)
  \/ ClearCall
  \/ Advance

CacheSpec == CacheInit /\ [][CacheNext]_vars

\* C11: set(q, o, v) followed immediately by get(q, o) returns exactly v.
C11_RoundTrip ==
  (/\ cacheOp.op = "get"
   /\ cacheOp.after.op = "set"
   /\ cacheOp.after.query = cacheOp.query
   /\ cacheOp.after.options = cacheOp.options
   /\ cacheOp.after.at = cacheOp.at)
  => cacheOp.result = Some(cacheOp.after.value)

\* C11, amended: set(q, o, v) followed immediately by get(q, o) returns exactly v
\* when the write of set and the read of get did not fail.
C11_RoundTripWhenStored ==
  (/\ cacheOp.op = "get"
   /\ cacheOp.after.op = "set"
   /\ cacheOp.after.query = cacheOp.query
   /\ cacheOp.after.options = cacheOp.options
   /\ cacheOp.after.at = cacheOp.at
   /\ cacheOp.after.wrote
   /\ ~cacheOp.threw)
  => cacheOp.result = Some(cacheOp.after.value)

\* a get right after a set that replaced an older, different value of the key
C11_Witness ==
  /\ cacheOp.op = "get"
  /\ cacheOp.after.op = "set"
  /\ cacheOp.after.query = cacheOp.query
  /\ cacheOp.after.options = cacheOp.options
  /\ cacheOp.after.at = cacheOp.at
  /\ cacheOp.after.wrote
  /\ ~cacheOp.threw
  /\ cacheOp.at > 0
  /\ cacheOp.result = Some("")
  /\ GenerateKey("auth", cacheOp.options) \in DOMAIN files
  /\ GenerateKey("gen1 cli", cacheOp.options) \in DOMAIN files

\* C12: get returns the stored value if and only if an entry exists for the key
\* and its modification time is less than 24 hours (86,400,000 ms) before the
\* call, absent otherwise; get leaves the cache directory as it found it.
C12_FreshnessIff ==
  cacheOp.op = "get" =>
    LET key == GenerateKey(cacheOp.query, cacheOp.options)
        fb == cacheOp.filesBefore
        young == key \in DOMAIN fb /\ cacheOp.at - fb[key].mtime < 24 * 60 * 60 * 1000
    IN /\ cacheOp.result = IF young THEN Some(fb[key].data) ELSE Absent
       /\ files = fb

\* C12, amended: get returns the stored value if and only if an entry exists for
\* the key, its modification time is less than 24 hours before the call and
\* reading it did not fail, absent otherwise; get leaves the cache directory as
\* it found it.
C12_FreshnessUnlessReadFails ==
  cacheOp.op = "get" =>
    LET key == GenerateKey(cacheOp.query, cacheOp.options)
        fb == cacheOp.filesBefore
        young == key \in DOMAIN fb /\ cacheOp.at - fb[key].mtime < 24 * 60 * 60 * 1000
    IN /\ cacheOp.result = IF young /\ ~cacheOp.threw THEN Some(fb[key].data) ELSE Absent
       /\ files = fb

\* a get of an entry that is exactly 24 hours old: absent, and the entry stays
C12_Witness ==
  /\ cacheOp.op = "get"
  /\ ~cacheOp.threw
  /\ LET key == GenerateKey(cacheOp.query, cacheOp.options) IN
       /\ key \in DOMAIN files
       /\ cacheOp.at - files[key].mtime = 24 * 60 * 60 * 1000
       /\ files[key].data = "Found 1 search results"
  /\ cacheOp.result = Absent

\* ------------------------------------------- pure functions, applied once
\* pairs of options objects for _generateKey: those executeDocsSearch builds,
\* and the same with another corpus root or another token budget
KeyOptions ==
  LET built == {BuildOptions(a) : a \in SearchArgsSet} IN
  built \cup {[o EXCEPT !.path = "docs"] : o \in built}
        \cup {[o EXCEPT !.maxTokens = 10000] : o \in built}
KeyInputs == [fn : {"generateKey"}, a : KeyOptions, b : KeyOptions]

\* cache.get(processedQuery, options) and cache.set(processedQuery, options, _)
\* of two requests: the keys of their entries
ApplyGenerateKey ==
  /\ input.fn = "generateKey"
  /\ output = NoValue
  /\ output' = [fn |-> "generateKey",
                keyA |-> GenerateKey(input.a.query, input.a),
                keyB |-> GenerateKey(input.b.query, input.b)]
  /\ UNCHANGED <<syncVars, files, now, cacheOp, firstReq, lastReq, input, headingCache>>

\* C13: two requests that differ in the query or in a content-affecting option
\* (files-only, JSON output, content inclusion, token budget, skip offset, corpus
\* root) have different cache keys; two requests that differ in nothing but
\* display options (maxResults) have the same key.
C13_KeySeparatesContent ==
  output.fn = "generateKey" =>
    LET a == input.a
        b == input.b
        sameContent ==
          /\ a.query = b.query
          /\ a.filesOnly = b.filesOnly
          /\ a.json = b.json
          /\ a.includeContent = b.includeContent
          /\ a.maxTokens = b.maxTokens
          /\ a.skipTokens = b.skipTokens
          /\ a.path = b.path
    IN (output.keyA = output.keyB) <=> sameContent


\* ------------------------------------- executeDocsSearch, request by request
\* the requests of a behaviour: one query, with and without content inclusion
\* and files-only
ReqArgs ==
  {a \in SearchArgsSet :
     /\ a.query = "auth" /\ a.page = Unset /\ a.maxResults = Unset /\ ~a.useJson}

\* search(options) of the matcher, index.ts line 731: its text is a function of
\* the options it is given and of the corpus it reads, the working copy as the
\* last pull left it
Search(options) == [matcherOutputFor |-> options, corpus |-> root.ver]

\* formatResults(results, args), index.ts lines 769-1014: the text is a function
\* of the matcher's output and of the arguments
FormatResults(results, args) == [formatted |-> results, for |-> args]

\* one call of executeDocsSearch, index.ts lines 282-760, from the options to
\* the response; ioOk, searchOk, writeOk: the cache read, the matcher and the
\* cache write do not fail.  early: the call ends before the cache is looked at,
\* with the headings of a session when they were found and filesOnly is set
\* (lines 310-361; a heading lookup that throws is caught at line 364 and the
\* search goes on), or with the McpError of line 754 when a statement outside
\* the inner handlers throws (building the options, directory scoping)
ExecuteDocsSearch(args) ==
  LET options == BuildOptions(args)
      hasFile == GenerateKey(options.query, options) \in DOMAIN files
      idle == [args |-> args, at |-> now, getCalled |-> FALSE, readThrew |-> FALSE,
               hit |-> FALSE, searched |-> FALSE, searchThrew |-> FALSE,
               setCalled |-> FALSE, stored |-> FALSE,
               later |-> firstReq # NoReq, wiped |-> FALSE]
  IN
  /\ \/ /\ args.filesOnly
        /\ lastReq' = [state |-> "headings",
                       response |-> [formatted |-> "Relevant Headings", for |-> args]]
                      @@ idle
        /\ UNCHANGED <<files, firstReq>>
     \/ /\ lastReq' = [state |-> "threw",
                       response |-> [thrown |-> "Error executing docs search"]]
                      @@ idle
        /\ UNCHANGED <<files, firstReq>>
     \/ \E ioOk \in (IF hasFile /\ ~args.includeContent THEN BOOLEAN ELSE {TRUE}) :
        \E searchOk \in BOOLEAN : \E writeOk \in BOOLEAN :
          LET cached == IF args.includeContent THEN Absent
                        ELSE CacheGet(files, options.query, options, now, ioOk)
              hit == cached # Absent
              result == Search(options)
              call == [state |-> "done", args |-> args, at |-> now,
                       corpus |-> root.ver,
                       getCalled |-> ~args.includeContent,
                       readThrew |-> ~ioOk,
                       hit |-> hit,
                       searched |-> ~hit,
                       searchThrew |-> ~hit /\ ~searchOk,
                       setCalled |-> ~hit /\ searchOk,
                       stored |-> ~hit /\ searchOk /\ writeOk,
                       response |->
                         IF hit THEN FormatResults(CHOOSE v \in cached : TRUE, args)
                         ELSE IF searchOk THEN FormatResults(result, args)
                         ELSE [formatted |-> "Error during search", for |-> args],
                       later |-> firstReq # NoReq,
                       wiped |-> FALSE]
          IN /\ files' = IF call.setCalled
                           THEN CacheSet(files, options.query, options, result, now, writeOk)
                           ELSE files
             /\ lastReq' = call
             /\ firstReq' = IF firstReq = NoReq THEN call ELSE firstReq
  /\ UNCHANGED <<syncVars, now, cacheOp, input, headingCache>>

\* config.toolName, part_001 line 59
ToolName == "search_amplify_docs"

CallToolUncaught(name, arguments) ==
  LET request == [fn |-> "callTool", name |-> name, arguments |-> arguments]
      Text(text, isError) ==
        request @@ [settled |-> "resolved",
                    content |-> <<[type |-> "text", text |-> text]>>,
                    isError |-> isError]
  IN
  IF name # ToolName \/ arguments = Absent \/ (\E args \in arguments : args.query = "")
    THEN /\ output' = IF name # ToolName
                        THEN request @@ [settled |-> "rejected", error |-> "MethodNotFound"]
                        ELSE Text("Error executing", TRUE)
         /\ lastReq' = [state |-> "refused", at |-> now, getCalled |-> FALSE,
                        searched |-> FALSE, setCalled |-> FALSE]
         /\ UNCHANGED <<syncVars, files, now, cacheOp, firstReq, input, headingCache>>
    ELSE \E args \in arguments :
           /\ ExecuteDocsSearch(args)
           /\ output' = IF lastReq'.state = "threw"
                          THEN request @@ [settled |-> "rejected", error |-> "InternalError"]
                          ELSE Text(lastReq'.response, FALSE)

\* the CallToolRequest handler, index.ts lines 214-273.  arguments: Absent when
\* the request has none, or the arguments object, whose query may be missing
\* (the empty string)
CallTool(name, arguments) ==
  LET request == [fn |-> "callTool", name |-> name, arguments |-> arguments]
      refused == [state |-> "refused", at |-> now, getCalled |-> FALSE,
                  searched |-> FALSE, setCalled |-> FALSE]
      Text(text, isError) ==
        request @@ [settled |-> "resolved",
                    content |-> <<[type |-> "text", text |-> text]>>,
                    isError |-> isError]
  IN
  IF name # ToolName
    THEN /\ output' = request @@ [settled |-> "rejected", error |-> "MethodNotFound"]
         /\ lastReq' = refused
         /\ UNCHANGED <<syncVars, files, now, cacheOp, firstReq, input, headingCache>>
  ELSE IF arguments = Absent
    THEN /\ output' = Text("Error executing: Arguments must be an object", TRUE)
         /\ lastReq' = refused
         /\ UNCHANGED <<syncVars, files, now, cacheOp, firstReq, input, headingCache>>
  ELSE IF \E args \in arguments : args.query = ""
    THEN /\ output' = Text("Error executing: Query is required in arguments", TRUE)
         /\ lastReq' = refused
         /\ UNCHANGED <<syncVars, files, now, cacheOp, firstReq, input, headingCache>>
  ELSE \E args \in arguments :
         /\ ExecuteDocsSearch(args)
         /\ output' = IF lastReq'.state = "threw"
                        THEN Text(lastReq'.response, TRUE)
                        ELSE Text(lastReq'.response, FALSE)

\* executeSearch of the HTTP adapter, part_002 lines 203-290: the cache is read
\* whatever the arguments (line 272), nothing is caught on the way, and whatever
\* is thrown leaves as the Error of line 288.  The options are those of
\* BuildOptions, with the query as given
ExecuteSearch(args) ==
  LET options == BuildOptions(args)
      hasFile == GenerateKey(args.query, options) \in DOMAIN files
  IN
  /\ \E ioOk \in (IF hasFile THEN BOOLEAN ELSE {TRUE}) :
     \E searchOk \in BOOLEAN : \E writeOk \in BOOLEAN :
       LET cached == CacheGet(files, args.query, options, now, ioOk)
           hit == cached # Absent /\ ~args.includeContent
           result == Search(options)
       IN /\ files' = IF ~hit /\ searchOk
                        THEN CacheSet(files, args.query, options, result, now, writeOk)
                        ELSE files
          /\ lastReq' = [state |-> "http", at |-> now, getCalled |-> TRUE,
                         searched |-> ~hit, setCalled |-> ~hit /\ searchOk,
                         response |->
                           IF hit THEN FormatResults(CHOOSE v \in cached : TRUE, args)
                           ELSE IF searchOk THEN FormatResults(result, args)
                           ELSE [thrown |-> "Search execution failed"]]
  /\ UNCHANGED <<syncVars, now, cacheOp, firstReq, input, headingCache>>

HttpSearchUnchecked(route, tool, arguments) ==
  LET request == [fn |-> "http", route |-> route, tool |-> tool,
                  arguments |-> arguments]
  IN
  IF \/ route = "POST /api/search" /\ tool # ToolName
     \/ arguments = Absent
     \/ route # "GET /search" /\ \E args \in arguments : args.query = ""
    THEN /\ output' = request @@ [status |-> 400]
         /\ lastReq' = [state |-> "refused", at |-> now, getCalled |-> FALSE,
                        searched |-> FALSE, setCalled |-> FALSE]
         /\ UNCHANGED <<syncVars, files, now, cacheOp, firstReq, input, headingCache>>
    ELSE \E args \in arguments :
           /\ ExecuteSearch(args)
           /\ output' = request @@
                [status |-> IF "thrown" \in DOMAIN lastReq'.response THEN 500 ELSE 200]

\* the search routes of the HTTP adapter, part_002 lines 86-189, on a request
\* whose body (or query string) was parsed into an object: POST /api/search
\* reads tool and arguments of the body, GET /search and POST /search read the
\* arguments themselves and no tool
HttpSearch(route, tool, arguments) ==
  LET request == [fn |-> "http", route |-> route, tool |-> tool,
                  arguments |-> arguments]
      refused == [state |-> "refused", at |-> now, getCalled |-> FALSE,
                  searched |-> FALSE, setCalled |-> FALSE]
  IN
  IF \/ route = "POST /api/search" /\ tool # ToolName
     \/ arguments = Absent
     \/ \E args \in arguments : args.query = ""
    THEN /\ output' = request @@ [status |-> 400]
         /\ lastReq' = refused
         /\ UNCHANGED <<syncVars, files, now, cacheOp, firstReq, input, headingCache>>
    ELSE \E args \in arguments :
           /\ ExecuteSearch(args)
           /\ output' = request @@
                [status |-> IF "thrown" \in DOMAIN lastReq'.response THEN 500 ELSE 200]

\* the cache directory is emptied (SearchCache.clear, or fs.emptyDir of the data
\* directory that holds it, git.ts line 121)
CacheWiped ==
  /\ files # << >>
  /\ files' = CacheClear(files, TRUE)
  /\ firstReq' = IF firstReq = NoReq THEN firstReq ELSE [firstReq EXCEPT !.wiped = TRUE]
  /\ UNCHANGED <<syncVars, now, cacheOp, lastReq, input, output, headingCache>>

\* a timer tick's setupGitRepo(config, true) from start to end, git.ts lines
\* 225-246: fetch, a status that reports the ref behind, and the pull; the
\* files of the cache directory are not tracked and stay as they are
RefreshPulled ==
  /\ isRepo(root) /\ ~isDirectoryEmpty(root)
  /\ ShouldPull(remoteVer - root.ver)
  /\ root' = [root EXCEPT !.ver = remoteVer, !.fetched = remoteVer]
  /\ lastRefresh' = [IdleCall EXCEPT !.pc = "done", !.isUpdate = TRUE,
                                     !.result = "returned", !.first = "git",
                                     !.gitEntered = TRUE, !.behind = remoteVer - root.ver,
                                     !.pullIssued = TRUE, !.wrote = TRUE]
  /\ UNCHANGED <<queryVars, config, remoteVer, startup, refreshes, mainPc, runs, firstRoot,
                 consoleLog>>

\* the server answers queries over a working copy it found at startup (the
\* skip path of setupWithGit, which keeps the cache directory), one commit
\* behind the upstream ref, with auto-update enabled
SearchInit ==
  /\ config = [gitUrl |-> "github", gitRef |-> "main", autoUpdateInterval |-> 60,
               amplifyGeneration |-> "both"]
  /\ root = [FreshRoot EXCEPT !.entries = RemoteTree \cup {CacheDir}, !.git = "valid"]
  /\ remoteVer = 1
  /\ startup = [IdleCall EXCEPT !.pc = "done", !.result = "returned", !.first = "git",
                                !.gitEntered = TRUE]
  /\ refreshes = EmptyBag
  /\ lastRefresh = IdleCall
  /\ mainPc = "serving"
  /\ runs = 1
  /\ firstRoot = [set |-> TRUE, corpus |-> Corpus(root), remote |-> 1]
  /\ consoleLog = "original"
  /\ QueryIdle

SearchNext ==
  \/ \E args \in ReqArgs : CallTool(ToolName, Some(args))
  \/ CacheWiped
  \/ RefreshPulled
  \/ Advance

SearchSpec == SearchInit /\ [][SearchNext]_vars

\* the arguments of a request, valid or not: none, an object without a query,
\* or one of ReqArgs
ReqArguments ==
  {Absent, Some([CHOOSE args \in ReqArgs : TRUE EXCEPT !.query = ""])}
    \cup {Some(args) : args \in ReqArgs}

\* requests arriving at the tool handler and at the HTTP routes, one at a time
HandlerNext ==
  \/ \E name \in {ToolName, "other_tool"} : \E arguments \in ReqArguments :
       CallTool(name, arguments)
  \/ \E route \in {"POST /api/search", "GET /search", "POST /search"} :
     \E tool \in (IF route = "POST /api/search" THEN {ToolName, "other_tool"}
                  ELSE {"other_tool"}) :
     \E arguments \in ReqArguments :
       HttpSearch(route, tool, arguments)

HandlerSpec == CacheInit /\ [][HandlerNext]_vars

C24_MatcherErrorFlagged ==
  (output.fn = "callTool" /\ lastReq.state = "done" /\ lastReq.searchThrew)
    => output.settled = "resolved" /\ output.isError

\* C25: a request without a query is turned down before any search work: each
\* HTTP search route answers 400, the tool handler answers with an error
\* payload, and neither the cache nor the matcher is called
C25_NoQueryNoWork ==
  (/\ output.fn \in {"callTool", "http"}
   /\ \/ output.arguments = Absent
      \/ \E args \in output.arguments : args.query = "")
  => /\ lastReq.state = "refused"
     /\ ~lastReq.getCalled /\ ~lastReq.searched /\ ~lastReq.setCalled
     /\ output.fn = "http" => output.status = 400
     /\ (output.fn = "callTool" /\ output.name = ToolName)
          => output.settled = "resolved" /\ output.isError

\* GET /search without a query, on a server whose cache holds an entry
C25_Witness ==
  /\ output.fn = "http"
  /\ output.route = "GET /search"
  /\ \E args \in output.arguments : args.query = ""
  /\ output.status = 400
  /\ files # << >>

\* C14: a request with includeContent = true neither reads nor writes the cache.
C14_ContentBypassesCache ==
  (lastReq.state = "done" /\ lastReq.args.includeContent)
    => ~lastReq.getCalled /\ ~lastReq.setCalled

\* C31: the result cache stays consistent with the corpus across refreshes: a
\* query answered from a cache entry is answered with what the matcher found in
\* the corpus as it is when the query is answered, not as it was before a
\* refresh that pulled changes.
C31_CacheFollowsCorpus ==
  (lastReq.state = "done" /\ lastReq.hit)
    => lastReq.response.formatted.corpus = lastReq.corpus

\* C15: of two identical requests without content inclusion, less than 24 hours
\* apart and with no cache clearing between them, the second is served from the
\* cache without invoking the matcher, and its response equals the first's (here
\* even when the first request's matcher call and cache write succeeded and the
\* second's cache read did not fail).
C15_RepeatServedFromCache ==
  (/\ lastReq.state = "done"
   /\ lastReq.later
   /\ lastReq.args = firstReq.args
   /\ ~lastReq.args.includeContent
   /\ lastReq.at - firstReq.at < 24 * 60 * 60 * 1000
   /\ ~firstReq.wiped
   /\ firstReq.searched /\ firstReq.stored
   /\ ~lastReq.readThrew)
  => /\ lastReq.hit
     /\ ~lastReq.searched
     /\ lastReq.response = firstReq.response


\* ------------------------------------------------------------ strings
\* String.prototype.includes: pat occurs in s
Includes(s, pat) ==
  \E i \in 1..(Len(s) - Len(pat) + 1) : SubSeq(s, i, i + Len(pat) - 1) = pat

\* String.prototype.toLowerCase, on the letters A-Z
RECURSIVE ToLowerCase(_)
ToLowerCase(s) ==
  IF s = "" THEN ""
  ELSE LET c == SubSeq(s, 1, 1)
           upper == "ABCDEFGHIJKLMNOPQRSTUVWXYZ"
           lower == "abcdefghijklmnopqrstuvwxyz"
           at == {k \in 1..26 : SubSeq(upper, k, k) = c}
       IN (IF at = {} THEN c ELSE LET k == CHOOSE k \in at : TRUE IN SubSeq(lower, k, k))
          \o ToLowerCase(SubSeq(s, 2, Len(s)))

\* the characters \s and \w of the regular expressions
Whitespace == {" ", "\t", "\n"}
WordChars ==
  LET w == "abcdefghijklmnopqrstuvwxyzABCDEFGHIJKLMNOPQRSTUVWXYZ0123456789_"
  IN {SubSeq(w, k, k) : k \in 1..Len(w)}

\* s.match(/(f1|f2|...)\s+(g1|g2|...)/): one of firsts, then one or more
\* whitespace characters, then one of seconds
MatchesPair(s, firsts, seconds) ==
  \E f \in firsts : \E g \in seconds :
    \E i \in 1..(Len(s) - Len(f) + 1) : \E j \in (i + Len(f) + 1)..(Len(s) - Len(g) + 1) :
      /\ SubSeq(s, i, i + Len(f) - 1) = f
      /\ \A k \in (i + Len(f))..(j - 1) : SubSeq(s, k, k) \in Whitespace
      /\ SubSeq(s, j, j + Len(g) - 1) = g

\* s.split(/\s+/).filter(term => term.length > 2): the maximal runs of
\* characters other than whitespace that are longer than 2 (index.ts lines
\* 1190-1193, directory.ts lines 183-185)
LongTerms(s) ==
  {SubSeq(s, i, j) : <<i, j>> \in
     {ij \in (1..Len(s)) \X (1..Len(s)) :
        /\ ij[2] - ij[1] + 1 > 2
        /\ \A k \in ij[1]..ij[2] : SubSeq(s, k, k) \notin Whitespace
        /\ ij[1] = 1 \/ SubSeq(s, ij[1] - 1, ij[1] - 1) \in Whitespace
        /\ ij[2] = Len(s) \/ SubSeq(s, ij[2] + 1, ij[2] + 1) \in Whitespace}}


\* ------------------------- rankingFunction (src/src/index.ts, lines 451-679)
\* the helper functions of lines 455-526 and 567-586, applied to one path
RankPathClass(path) ==
  LET lowerPath == ToLowerCase(path) IN
  [isMainPlatformDoc |-> Includes(lowerPath, "/src/pages/[platform]/"),
   isSetupDoc |->
     \E dir \in {"/start/", "/getting-started/", "/setup/", "/installation/",
                 "/quickstart/", "/project-setup/", "/prerequisites/", "/init/",
                 "/create-new-app/"} : Includes(lowerPath, dir),
   isGen2CliDoc |-> Includes(lowerPath, "[platform]/reference/cli-commands/"),
   isGen1CliDoc |->
     Includes(lowerPath, "/gen1/") /\ Includes(lowerPath, "/tools/cli/commands/"),
   isGen2Doc |->
     \/ Includes(lowerPath, "/gen2/")
     \/ (Includes(lowerPath, ".ts") /\ ~Includes(lowerPath, "/fragments/"))
     \/ \E text \in {"backend", "/data/", "/auth/", "/storage/", "/function/", "cdk",
                     "typescript", "code-first"} : Includes(lowerPath, text),
   isGen1Doc |->
     \E text \in {"/gen1/", "/fragments/", "cli", ".schema", "lib-v1"} :
       Includes(lowerPath, text),
   hasTypeScriptExamples |->
     \/ \E text \in {"typescript", "code-first", "cdk"} : Includes(lowerPath, text)
     \/ (Includes(lowerPath, ".ts") /\ ~Includes(lowerPath, "/fragments/")),
   hasCliExamples |->
     \E text \in {"/cli/", "command", "commands"} : Includes(lowerPath, text)]

\* the verbs and nouns of the resource-creation pattern (lines 544 and 1225)
CreationVerbs == {"create", "add", "define", "implement", "build", "configure"}
CreationNouns == {"resource", "api", "auth", "storage", "function", "database", "model"}

\* lines 528-556: what the query is about
RankQueryIntent(processedQuery) ==
  LET q == ToLowerCase(processedQuery) IN
  [isSetupQuery |->
     \E word \in {"setup", "install", "create", "start", "init", "begin",
                  "new project", "getting started", "quickstart", "prerequisites"} :
       Includes(q, word),
   isCliQuery |->
     \/ \E word \in {"cli", "command", "commands"} : Includes(q, word)
     \/ MatchesPair(q, {"amplify", "cdk"}, WordChars),
   isResourceCreationQuery |-> MatchesPair(q, CreationVerbs, CreationNouns),
   queryMentionsGen2 |-> Includes(q, "gen2") \/ Includes(q, "gen 2"),
   queryMentionsGen1 |-> Includes(q, "gen1") \/ Includes(q, "gen 1")]

ImpliedGenerationConfigFirst(intent, generation) ==
  IF generation = "gen2" THEN "gen2"
  ELSE IF generation = "gen1" THEN "gen1"
  ELSE IF intent.queryMentionsGen2 THEN "gen2"
  ELSE IF intent.queryMentionsGen1 THEN "gen1"
  ELSE "none"

\* the branches of lines 596-612 and of lines 617-633: a mention of Gen 2, then a
\* mention of Gen 1, then config.amplifyGeneration
ImpliedGeneration(intent, generation) ==
  IF intent.queryMentionsGen2 THEN "gen2"
  ELSE IF intent.queryMentionsGen1 THEN "gen1"
  ELSE IF generation = "gen2" THEN "gen2"
  ELSE IF generation = "gen1" THEN "gen1"
  ELSE "none"

\* the paths and queries the comparator is applied to; paths below the data
\* directory (absolute) and paths as the manifest writes them
RankPaths ==
  {"/srv/data/src/pages/gen1/[platform]/tools/cli/commands/index.mdx",
   "/srv/data/src/pages/[platform]/reference/cli-commands/index.mdx",
   "/srv/data/src/pages/[platform]/build-a-backend/auth/index.mdx",
   "/srv/data/src/pages/[platform]/start/quickstart/index.mdx",
   "src/pages/gen1/[platform]/start/index.mdx",
   "src/fragments/lib-v1/auth/js/getting-started.mdx",
   "src/pages/[platform]/how-amplify-works/concepts/index.mdx"}
RankQueries == {"gen1 cli", "Gen2 CLI commands", "auth", "create api", "quickstart"}

\* the classification of every path and the facts of every query, computed once
PathClasses == [path \in RankPaths |-> RankPathClass(path)]
QueryFacts ==
  [query \in RankQueries |->
     [intent |-> RankQueryIntent(query),
      titleMatches |->
        {path \in RankPaths : Includes(ToLowerCase(path), ToLowerCase(query))}]]

\* options.rankingFunction(a, b), lines 451-679
RankingFunction(a, b, processedQuery, generation) ==
  LET A == PathClasses[a.path]
      B == PathClasses[b.path]
      intent == QueryFacts[processedQuery].intent
      implied == ImpliedGeneration(intent, generation)
      aTitleMatch == a.path \in QueryFacts[processedQuery].titleMatches
      bTitleMatch == b.path \in QueryFacts[processedQuery].titleMatches
      \* if (x && !y) return -1; if (!x && y) return 1;
      Prefer(x, y) == IF x /\ ~y THEN -1 ELSE IF ~x /\ y THEN 1 ELSE 0
      cli ==
        IF ~intent.isCliQuery THEN 0
        ELSE IF implied = "gen2" THEN Prefer(A.isGen2CliDoc, B.isGen2CliDoc)
        ELSE IF implied = "gen1" THEN Prefer(A.isGen1CliDoc, B.isGen1CliDoc)
        ELSE 0
      creation ==
        IF ~intent.isResourceCreationQuery THEN 0
        ELSE IF implied = "gen2" THEN Prefer(A.hasTypeScriptExamples, B.hasTypeScriptExamples)
        ELSE IF implied = "gen1" THEN Prefer(A.hasCliExamples, B.hasCliExamples)
        ELSE 0
      setup == IF intent.isSetupQuery THEN Prefer(A.isSetupDoc, B.isSetupDoc) ELSE 0
      main == Prefer(A.isMainPlatformDoc, B.isMainPlatformDoc)
      gen ==
        IF intent.queryMentionsGen1 THEN Prefer(A.isGen1Doc, B.isGen1Doc)
        ELSE IF A.isGen2Doc /\ B.isGen1Doc THEN -1
        ELSE IF A.isGen1Doc /\ B.isGen2Doc THEN 1
        ELSE 0
      title == Prefer(aTitleMatch, bTitleMatch)
  IN IF cli # 0 THEN cli
     ELSE IF creation # 0 THEN creation
     ELSE IF setup # 0 THEN setup
     ELSE IF main # 0 THEN main
     ELSE IF gen # 0 THEN gen
     ELSE IF title # 0 THEN title
     ELSE b.matchCount - a.matchCount

\* the candidates handed to the comparator, three at a time
Candidates == [path : RankPaths, matchCount : {1, 3}]
RankInputs ==
  [fn : {"rankingFunction"}, query : RankQueries, generation : Generations,
   a : Candidates, b : Candidates, c : Candidates]

\* the comparator applied to every ordered pair of the three candidates
ApplyRankingFunction ==
  /\ input.fn = "rankingFunction"
  /\ output = NoValue
  /\ output' =
       [fn |-> "rankingFunction",
        cmp |-> [x \in {"a", "b", "c"} |-> [y \in {"a", "b", "c"} |->
                   RankingFunction(input[x], input[y], input.query, input.generation)]]]
  /\ UNCHANGED <<syncVars, files, now, cacheOp, firstReq, lastReq, input, headingCache>>

\* C16: for a fixed query and configuration the comparator is a strict total
\* pre-order: compare(a, a) = 0, the sign of compare(a, b) is the opposite of the
\* sign of compare(b, a), and a before b, b before c implies a before c.
C16_TotalPreorder ==
  output.fn = "rankingFunction" =>
    LET cmp == output.cmp
        Sign(n) == IF n < 0 THEN -1 ELSE IF n > 0 THEN 1 ELSE 0
    IN /\ cmp["a"]["a"] = 0
       /\ Sign(cmp["a"]["b"]) = -Sign(cmp["b"]["a"])
       /\ (cmp["a"]["b"] < 0 /\ cmp["b"]["c"] < 0) => cmp["a"]["c"] < 0
       /\ (cmp["a"]["b"] <= 0 /\ cmp["b"]["c"] <= 0) => cmp["a"]["c"] <= 0

\* C32: the ladder is lexicographic: the comparator's verdict on two candidates
\* is that of the first step, in the order CLI intent, resource-creation intent,
\* setup intent, main-platform subtree, generation preference, literal query in
\* the path, that tells the two apart (prefers one and, with the arguments
\* swapped, the other); the match count decides when no step tells them apart.
C32_Lexicographic ==
  output.fn = "rankingFunction" =>
    \A x, y \in {"a", "b", "c"} :
      LET X == PathClasses[input[x].path]
          Y == PathClasses[input[y].path]
          facts == QueryFacts[input.query]
          intent == facts.intent
          implied == ImpliedGeneration(intent, input.generation)
          Sign(n) == IF n < 0 THEN -1 ELSE IF n > 0 THEN 1 ELSE 0
          Tells(p, q) == IF p /\ ~q THEN -1 ELSE IF ~p /\ q THEN 1 ELSE 0
          steps ==
            << IF ~intent.isCliQuery THEN 0
               ELSE IF implied = "gen2" THEN Tells(X.isGen2CliDoc, Y.isGen2CliDoc)
               ELSE IF implied = "gen1" THEN Tells(X.isGen1CliDoc, Y.isGen1CliDoc)
               ELSE 0,
               IF ~intent.isResourceCreationQuery THEN 0
               ELSE IF implied = "gen2"
                 THEN Tells(X.hasTypeScriptExamples, Y.hasTypeScriptExamples)
               ELSE IF implied = "gen1" THEN Tells(X.hasCliExamples, Y.hasCliExamples)
               ELSE 0,
               IF intent.isSetupQuery THEN Tells(X.isSetupDoc, Y.isSetupDoc) ELSE 0,
               Tells(X.isMainPlatformDoc, Y.isMainPlatformDoc),
               IF intent.queryMentionsGen1 THEN Tells(X.isGen1Doc, Y.isGen1Doc)
               ELSE Tells(X.isGen2Doc /\ Y.isGen1Doc, X.isGen1Doc /\ Y.isGen2Doc),
               Tells(input[x].path \in facts.titleMatches,
                     input[y].path \in facts.titleMatches) >>
          telling == {i \in 1..Len(steps) : steps[i] # 0}
          first == CHOOSE i \in telling : \A j \in telling : i <= j
      IN Sign(output.cmp[x][y]) =
           (IF telling = {} THEN Sign(input[y].matchCount - input[x].matchCount)
            ELSE steps[first])

\* C17: for a CLI-intent query that mentions Gen 1 and not Gen 2, a Gen 1
\* command-reference path is ordered before a path that is not one, whatever the
\* match counts, the other classes of the two paths and the configured generation.
C17_Gen1CliFirst ==
  (/\ output.fn = "rankingFunction"
   /\ QueryFacts[input.query].intent.isCliQuery
   /\ QueryFacts[input.query].intent.queryMentionsGen1
   /\ ~QueryFacts[input.query].intent.queryMentionsGen2
   /\ PathClasses[input.a.path].isGen1CliDoc
   /\ ~PathClasses[input.b.path].isGen1CliDoc)
  => /\ output.cmp["a"]["b"] < 0
     /\ output.cmp["b"]["a"] > 0

\* "gen1 cli" with the server configured for Gen 2: the Gen 1 command reference,
\* one match, before the Gen 2 command reference of the main platform subtree,
\* three matches
C17_Witness ==
  /\ output.fn = "rankingFunction"
  /\ input.query = "gen1 cli"
  /\ input.generation = "gen2"
  /\ PathClasses[input.a.path].isGen1CliDoc
  /\ PathClasses[input.b.path].isGen2CliDoc
  /\ PathClasses[input.b.path].isMainPlatformDoc
  /\ input.a.matchCount = 1
  /\ input.b.matchCount = 3
  /\ output.cmp["a"]["b"] < 0


\* ------------------------------ DirectoryManager (src/src/directory.ts)
\* categorizeGenPaths, lines 159-171: the tests applied to a path of the map
DirPathClass(nodePath) ==
  LET gen1 == Includes(nodePath, "gen1/") \/ Includes(nodePath, "/gen1/") IN
  [gen1 |-> gen1, gen2 |-> ~gen1 /\ Includes(nodePath, "[platform]/")]

\* the path entries a manifest (directory.mjs) may declare
ManifestPaths ==
  {"src/pages/gen1/[platform]/build-a-backend/restapi/index.mdx",
   "src/pages/[platform]/build-a-backend/data/custom-api/index.mdx",
   "src/pages/[platform]/build-a-backend/auth/index.mdx",
   "src/pages/[platform]/start/migrate-from-gen1/index.mdx",
   "src/pages/contribute/index.mdx"}
\* a manifest: the file is missing or has no directory object (found = FALSE),
\* or declares some paths
Manifests ==
  {[found |-> FALSE, paths |-> {}]} \cup [found : {TRUE}, paths : SUBSET ManifestPaths]

\* load, lines 45-99, with processDirectory, flattenDirectory and
\* categorizeGenPaths (lines 106-171): the fields of the DirectoryManager after
\* the call.  The synthetic root and every extracted path are keys of the map;
\* the lists are kept as sets (the order of the map is not modelled)
Load(manifest) ==
  IF ~manifest.found
    THEN [directory |-> FALSE, flattenedPaths |-> {}, gen1Paths |-> {}, gen2Paths |-> {}]
    ELSE LET keys == {"src/pages/index.tsx"} \cup manifest.paths IN
         [directory |-> TRUE,
          flattenedPaths |-> keys,
          gen1Paths |-> {nodePath \in keys : DirPathClass(nodePath).gen1},
          gen2Paths |-> {nodePath \in keys : DirPathClass(nodePath).gen2}]

GetMatchingPathsEveryTerm(dm, query, generation) ==
  IF ~dm.directory THEN {}
  ELSE LET queryTerms == LongTerms(ToLowerCase(query))
           pathsToSearch == IF generation = "gen1" THEN dm.gen1Paths
                            ELSE IF generation = "gen2" THEN dm.gen2Paths
                            ELSE dm.gen1Paths \cup dm.gen2Paths
       IN {nodePath \in pathsToSearch :
             \A term \in queryTerms : Includes(ToLowerCase(nodePath), term)}

\* getMatchingPaths, lines 179-202, on a DirectoryManager with fields dm
GetMatchingPaths(dm, query, generation) ==
  IF ~dm.directory THEN {}
  ELSE LET queryTerms == LongTerms(ToLowerCase(query))
           pathsToSearch == IF generation = "gen1" THEN dm.gen1Paths
                            ELSE IF generation = "gen2" THEN dm.gen2Paths
                            ELSE dm.gen1Paths \cup dm.gen2Paths
       IN {nodePath \in pathsToSearch :
             \E term \in queryTerms : Includes(ToLowerCase(nodePath), term)}

DirInputs ==
  [fn : {"getMatchingPaths"}, manifest : Manifests,
   query : {"create api", "Gen1 AUTH", "an", "custom  api docs"},
   generation : Generations]

\* new DirectoryManager(dataDir), load(), then getMatchingPaths(query, generation)
ApplyGetMatchingPaths ==
  /\ input.fn = "getMatchingPaths"
  /\ output = NoValue
  /\ output' = LET dm == Load(input.manifest) IN
               [fn |-> "getMatchingPaths", dm |-> dm,
                matchingPaths |-> GetMatchingPaths(dm, input.query, input.generation)]
  /\ UNCHANGED <<syncVars, files, now, cacheOp, firstReq, lastReq, input, headingCache>>

\* --------------------- findRelevantHeadings (index.ts, lines 1186-1303)
\* lines 1215-1235: what the query is about, for the ordering of headings
HeadingQueryIntent(query) ==
  LET q == ToLowerCase(query) IN
  [isSetupQuery |->
     \E word \in {"setup", "install", "create", "start", "init", "begin",
                  "new project", "getting started"} : Includes(q, word),
   isResourceCreationQuery |-> MatchesPair(q, CreationVerbs, CreationNouns),
   mentionsGen1 |-> Includes(q, "gen1") \/ Includes(q, "gen 1"),
   mentionsGen2 |-> Includes(q, "gen2") \/ Includes(q, "gen 2")]

\* lines 1248-1268: isTypeScriptContent and isCliContent of a heading
HeadingContentType(aPath, aHeading) ==
  LET path == ToLowerCase(aPath)
      heading == ToLowerCase(aHeading)
  IN [isTypeScriptContent |->
        \/ \E text \in {"typescript", "code-first", "cdk"} : Includes(path, text)
        \/ \E text \in {"typescript", "code-first"} : Includes(heading, text),
      isCliContent |->
        \/ \E text \in {"/cli/", "command"} : Includes(path, text)
        \/ \E text \in {"cli", "command"} : Includes(heading, text)]

ClassifyInputs ==
  [fn : {"classify"}, path : RankPaths, query : RankQueries, heading : {"Overview"}]

\* one path and one query, classified by the ranking comparator, by the
\* directory index and by the heading lookup
ApplyClassifiers ==
  /\ input.fn = "classify"
  /\ output = NoValue
  /\ output' = [fn |-> "classify",
                rankPath |-> PathClasses[input.path],
                rankQuery |-> QueryFacts[input.query].intent,
                dirPath |-> DirPathClass(input.path),
                headingQuery |-> HeadingQueryIntent(input.query),
                headingContent |-> HeadingContentType(input.path, input.heading)]
  /\ UNCHANGED <<syncVars, files, now, cacheOp, firstReq, lastReq, input, headingCache>>

\* C18: the ranking comparator classifies a path as Gen 1 or Gen 2 exactly when
\* the directory index does, and its intent predicates (setup, resource creation,
\* generation mentions) and content-type predicates (TypeScript, CLI) agree with
\* those of the heading lookup.
C18_SamePredicates ==
  output.fn = "classify" =>
    /\ output.rankPath.isGen1Doc = output.dirPath.gen1
    /\ output.rankPath.isGen2Doc = output.dirPath.gen2
    /\ output.rankQuery.isSetupQuery = output.headingQuery.isSetupQuery
    /\ output.rankQuery.isResourceCreationQuery = output.headingQuery.isResourceCreationQuery
    /\ output.rankQuery.queryMentionsGen1 = output.headingQuery.mentionsGen1
    /\ output.rankQuery.queryMentionsGen2 = output.headingQuery.mentionsGen2
    /\ output.rankPath.hasTypeScriptExamples = output.headingContent.isTypeScriptContent
    /\ output.rankPath.hasCliExamples = output.headingContent.isCliContent

\* C19: getMatchingPaths(query, generation) returns exactly the paths of the
\* requested generation list (both lists for "both") whose lower-cased text
\* contains a whitespace-separated term, longer than 2, of the lower-cased query;
\* nothing when no manifest is loaded.
C19_MatchingPaths ==
  output.fn = "getMatchingPaths" =>
    LET dm == output.dm
        subset == IF input.generation = "gen1" THEN dm.gen1Paths
                  ELSE IF input.generation = "gen2" THEN dm.gen2Paths
                  ELSE dm.gen1Paths \cup dm.gen2Paths
        terms == {t \in LongTerms(ToLowerCase(input.query)) : Len(t) > 2}
    IN /\ ~input.manifest.found => output.matchingPaths = {}
       /\ input.manifest.found =>
            \A p \in ManifestPaths \cup {"src/pages/index.tsx"} :
              p \in output.matchingPaths <=>
                (p \in subset /\ \E t \in terms : Includes(ToLowerCase(p), t))

\* "create api" asked of the Gen 2 list: the custom-api page is returned, the
\* auth page of the same list and the restapi page of the Gen 1 list are not
C19_Witness ==
  /\ output.fn = "getMatchingPaths"
  /\ input.query = "create api"
  /\ input.generation = "gen2"
  /\ input.manifest.paths = ManifestPaths
  /\ output.matchingPaths = {"src/pages/[platform]/build-a-backend/data/custom-api/index.mdx"}
  /\ "src/pages/[platform]/build-a-backend/auth/index.mdx" \in output.dm.gen2Paths
  /\ "src/pages/gen1/[platform]/build-a-backend/restapi/index.mdx" \in output.dm.gen1Paths

\* C20: after load() the Gen 1 and Gen 2 lists are disjoint subsets of the keys
\* of the flattened map; a key is in the Gen 1 list iff one of its path segments
\* is gen1, in the Gen 2 list iff one of its segments is [platform] and none is
\* gen1; the other keys are in neither list and stay in the map.
C20_ListsBySegment ==
  (output.fn = "getMatchingPaths" /\ output.dm.directory) =>
    LET dm == output.dm
        HasSegment(p, seg) == Includes("/" \o p \o "/", "/" \o seg \o "/")
    IN /\ dm.gen1Paths \cap dm.gen2Paths = {}
       /\ dm.gen1Paths \cup dm.gen2Paths \subseteq dm.flattenedPaths
       /\ input.manifest.paths \subseteq dm.flattenedPaths
       /\ \A p \in dm.flattenedPaths :
            /\ p \in dm.gen1Paths <=> HasSegment(p, "gen1")
            /\ p \in dm.gen2Paths <=> (HasSegment(p, "[platform]") /\ ~HasSegment(p, "gen1"))

\* a further load() on a DirectoryManager whose fields are dm (lines 45-121,
\* 159-171).  No statement of load or processDirectory empties the map or the
\* lists: flattenDirectory adds the new keys to the map (lines 129-153), and
\* categorizeGenPaths walks the whole map and pushes every classified key
\* again.  A failed load returns before it assigns anything.  gen1Length and
\* gen2Length are the lengths of the lists, the sets are their elements
LoadAgain(dm, manifest) ==
  LET old == [gen1Length |-> Cardinality(dm.gen1Paths),
              gen2Length |-> Cardinality(dm.gen2Paths)]
      keys == dm.flattenedPaths \cup {"src/pages/index.tsx"} \cup manifest.paths
      pushed1 == {nodePath \in keys : DirPathClass(nodePath).gen1}
      pushed2 == {nodePath \in keys : DirPathClass(nodePath).gen2}
  IN IF ~manifest.found
       THEN [directory |-> dm.directory, flattenedPaths |-> dm.flattenedPaths,
             gen1Paths |-> dm.gen1Paths, gen2Paths |-> dm.gen2Paths,
             gen1Length |-> old.gen1Length, gen2Length |-> old.gen2Length]
       ELSE [directory |-> TRUE, flattenedPaths |-> keys,
             gen1Paths |-> dm.gen1Paths \cup pushed1,
             gen2Paths |-> dm.gen2Paths \cup pushed2,
             gen1Length |-> old.gen1Length + Cardinality(pushed1),
             gen2Length |-> old.gen2Length + Cardinality(pushed2)]

\* new DirectoryManager(dataDir), then load() twice, the manifest file having
\* been rewritten in between
ApplyLoadTwice ==
  /\ input.fn = "load"
  /\ output = NoValue
  /\ output' = [fn |-> "load",
                dm |-> LoadAgain(Load(input.first), input.second)]
  /\ UNCHANGED <<syncVars, files, now, cacheOp, firstReq, lastReq, input, headingCache>>

\* C21: after a sequence of load() calls the map and the generation lists are
\* exactly those of the most recent successful parse: no path of an earlier
\* manifest remains, and no path appears twice in a generation list
C21_LatestManifestOnly ==
  output.fn = "load" =>
    LET latest == Load(IF input.second.found THEN input.second ELSE input.first)
        dm == output.dm
    IN /\ dm.flattenedPaths = latest.flattenedPaths
       /\ dm.gen1Paths = latest.gen1Paths
       /\ dm.gen2Paths = latest.gen2Paths
       /\ dm.gen1Length = Cardinality(dm.gen1Paths)
       /\ dm.gen2Length = Cardinality(dm.gen2Paths)

\* ------------------- executeDocsSearch: directory scoping (lines 392-448)
ScopeGenerationConfigFirst(query, amplifyGeneration) ==
  LET queryLower == ToLowerCase(query)
      mentionsGen1 == Includes(queryLower, "gen1") \/ Includes(queryLower, "gen 1")
      mentionsGen2 == Includes(queryLower, "gen2") \/ Includes(queryLower, "gen 2")
  IN IF amplifyGeneration # "both" THEN amplifyGeneration
     ELSE IF mentionsGen1 /\ ~mentionsGen2 THEN "gen1"
     ELSE IF mentionsGen2 /\ ~mentionsGen1 THEN "gen2"
     ELSE "both"

\* lines 396-414 (the HTTP adapter has the same statements, part_002 lines
\* 226-239): the generation whose paths scope the search
ScopeGeneration(query, amplifyGeneration) ==
  LET queryLower == ToLowerCase(query)
      mentionsGen1 == Includes(queryLower, "gen1") \/ Includes(queryLower, "gen 1")
      mentionsGen2 == Includes(queryLower, "gen2") \/ Includes(queryLower, "gen 2")
  IN IF mentionsGen1 /\ ~mentionsGen2 THEN "gen1"
     ELSE IF mentionsGen2 /\ ~mentionsGen1 THEN "gen2"
     ELSE IF amplifyGeneration # "both" THEN amplifyGeneration
     ELSE "both"

\* lines 392-448 after load(): nothing is derived without a loaded manifest
\* (line 393); otherwise the generation, the matching paths, and the filter
\* function that is set only when some path matches (line 421)
ApplyDirectoryScoping ==
  /\ input.fn = "scope"
  /\ output = NoValue
  /\ output' =
       LET dm == Load(input.manifest)
           generation == ScopeGeneration(input.query, input.amplifyGeneration)
           matchingPaths == GetMatchingPaths(dm, input.query, generation)
       IN IF ~dm.directory
            THEN [fn |-> "scope", generation |-> Absent, filterFunction |-> Absent]
            ELSE [fn |-> "scope", generation |-> Some(generation),
                  filterFunction |-> IF matchingPaths = {} THEN Absent
                                     ELSE Some(matchingPaths)]
  /\ UNCHANGED <<syncVars, files, now, cacheOp, firstReq, lastReq, input, headingCache>>

\* C22, as stated: a query that mentions a generation is scoped by what it
\* mentions whatever generation is configured, and the configured generation is
\* used only by a query that mentions none
C22_MentionBeatsConfig ==
  (output.fn = "scope" /\ input.manifest.found) =>
    LET queryLower == ToLowerCase(input.query)
        mentions == \/ Includes(queryLower, "gen1") \/ Includes(queryLower, "gen 1")
                    \/ Includes(queryLower, "gen2") \/ Includes(queryLower, "gen 2")
    IN IF mentions
         THEN \A amplifyGeneration \in Generations :
                output.generation = Some(ScopeGeneration(input.query, amplifyGeneration))
         ELSE output.generation = Some(input.amplifyGeneration)

\* C22, amended: with a loaded manifest, a query that mentions exactly one
\* generation is scoped to it whatever is configured; a query that mentions
\* none or both is scoped to the configured generation, which is the union
\* when "both" is configured.  Without a manifest no generation is derived
C22_ScopePrecedence ==
  output.fn = "scope" =>
    LET queryLower == ToLowerCase(input.query)
        mentionsGen1 == Includes(queryLower, "gen1") \/ Includes(queryLower, "gen 1")
        mentionsGen2 == Includes(queryLower, "gen2") \/ Includes(queryLower, "gen 2")
    IN /\ ~input.manifest.found => output.generation = Absent
       /\ (input.manifest.found /\ mentionsGen1 /\ ~mentionsGen2) =>
            output.generation = Some("gen1")
       /\ (input.manifest.found /\ mentionsGen2 /\ ~mentionsGen1) =>
            output.generation = Some("gen2")
       /\ (input.manifest.found /\ (mentionsGen1 <=> mentionsGen2)) =>
            output.generation = Some(input.amplifyGeneration)

\* a query that names Gen 1 only, on a server configured for Gen 2
C22_Witness ==
  /\ output.fn = "scope"
  /\ input.manifest.found
  /\ input.query = "Gen1 api"
  /\ input.amplifyGeneration = "gen2"
  /\ output.generation = Some("gen1")
  /\ output.filterFunction # Absent

\* ------------------------------------ loadConfig (part_001, lines 90-151)
LoadConfigEnvLast(file, env, args) ==
  LET ParseInt(v) == IF v = "0" THEN 0 ELSE 30
      Truthy(m) == m # Absent /\ m # Some("")
      Value(m) == CHOOSE v \in m : TRUE
      merged == IF file = Absent THEN [gitUrl |-> Absent, autoUpdateInterval |-> Absent]
                ELSE Value(file)
  IN [gitUrl |->
        IF Truthy(env.gitUrl) THEN Value(env.gitUrl)
        ELSE IF Truthy(args.gitUrl) THEN Value(args.gitUrl)
        ELSE IF merged.gitUrl # Absent THEN Value(merged.gitUrl)
        ELSE "https://github.com/aws-amplify/docs.git",
      autoUpdateInterval |->
        IF Truthy(env.autoUpdateInterval) THEN ParseInt(Value(env.autoUpdateInterval))
        ELSE IF args.autoUpdateInterval # Absent
          THEN Value(args.autoUpdateInterval)
        ELSE IF merged.autoUpdateInterval # Absent THEN Value(merged.autoUpdateInterval)
        ELSE 60]

\* loadConfig for two of its fields, a text and the number.  file: Absent when
\* there is no file or it does not parse (lines 103-113), or the object read;
\* env and args: per field Absent (undefined) or the value given, a string in the
\* environment, where parseInt turns "0" and "30" into numbers.  The spread of
\* line 106 takes every key the file has; the
\* environment and most arguments are tested for truthiness (lines 116-136),
\* args.autoUpdateInterval against undefined (line 130)
LoadConfig(file, env, args) ==
  LET ParseInt(v) == IF v = "0" THEN 0 ELSE 30
      Truthy(m) == m # Absent /\ m # Some("")
      Value(m) == CHOOSE v \in m : TRUE
      merged == IF file = Absent THEN [gitUrl |-> Absent, autoUpdateInterval |-> Absent]
                ELSE Value(file)
  IN [gitUrl |->
        IF Truthy(args.gitUrl) THEN Value(args.gitUrl)
        ELSE IF Truthy(env.gitUrl) THEN Value(env.gitUrl)
        ELSE IF merged.gitUrl # Absent THEN Value(merged.gitUrl)
        ELSE "https://github.com/aws-amplify/docs.git",
      autoUpdateInterval |->
        IF args.autoUpdateInterval # Absent
          THEN Value(args.autoUpdateInterval)
        ELSE IF Truthy(env.autoUpdateInterval)
          THEN ParseInt(Value(env.autoUpdateInterval))
        ELSE IF merged.autoUpdateInterval # Absent THEN Value(merged.autoUpdateInterval)
        ELSE 60]

ApplyLoadConfig ==
  /\ input.fn = "loadConfig"
  /\ output = NoValue
  /\ output' = [fn |-> "loadConfig",
                config |-> LoadConfig(input.file, input.env, input.args)]
  /\ UNCHANGED <<syncVars, files, now, cacheOp, firstReq, lastReq, input, headingCache>>

\* C27, as stated: every field has the value of the highest of defaults < file
\* < environment < command line that sets it, whatever the value set (an
\* interval of 0, an empty text); a layer that does not set it leaves the lower
\* value
C27_HighestSetLayerWins ==
  output.fn = "loadConfig" =>
    LET Value(m) == CHOOSE v \in m : TRUE
        Number(m) == IF m = Absent THEN Absent
                     ELSE IF m = Some("0") THEN Some(0) ELSE Some(30)
        Layers(field) ==
          <<input.args[field],
            IF field = "gitUrl" THEN input.env[field] ELSE Number(input.env[field]),
            IF input.file = Absent THEN Absent ELSE Value(input.file)[field]>>
        Resolved(field, default) ==
          LET layers == Layers(field) IN
          IF layers[1] # Absent THEN Value(layers[1])
          ELSE IF layers[2] # Absent THEN Value(layers[2])
          ELSE IF layers[3] # Absent THEN Value(layers[3])
          ELSE default
    IN /\ output.config.gitUrl =
            Resolved("gitUrl", "https://github.com/aws-amplify/docs.git")
       /\ output.config.autoUpdateInterval = Resolved("autoUpdateInterval", 60)

\* C27, amended: as above, where an empty text in the environment or on the
\* command line counts as not set (in the file it counts as set); an interval
\* of 0 counts as set in every layer
C27_HighestNonEmptyLayerWins ==
  output.fn = "loadConfig" =>
    LET Value(m) == CHOOSE v \in m : TRUE
        Number(m) == IF m = Absent THEN Absent
                     ELSE IF m = Some("0") THEN Some(0) ELSE Some(30)
        Sets(field, m) == m # Absent /\ (field = "gitUrl" => m # Some(""))
        Layers(field) ==
          <<input.args[field],
            IF field = "gitUrl" THEN input.env[field] ELSE Number(input.env[field]),
            IF input.file = Absent THEN Absent ELSE Value(input.file)[field]>>
        Resolved(field, default) ==
          LET layers == Layers(field) IN
          IF Sets(field, layers[1]) THEN Value(layers[1])
          ELSE IF Sets(field, layers[2]) THEN Value(layers[2])
          ELSE IF layers[3] # Absent THEN Value(layers[3])
          ELSE default
    IN /\ output.config.gitUrl =
            Resolved("gitUrl", "https://github.com/aws-amplify/docs.git")
       /\ output.config.autoUpdateInterval = Resolved("autoUpdateInterval", 60)

\* AUTO_UPDATE_INTERVAL=0 in the environment over an interval of 45 in the file
C27_Witness ==
  /\ output.fn = "loadConfig"
  /\ input.args.autoUpdateInterval = Absent
  /\ input.env.autoUpdateInterval = Some("0")
  /\ input.file # Absent
  /\ \E f \in input.file : f.autoUpdateInterval = Some(45)
  /\ output.config.autoUpdateInterval = 0

\* ------------------------- extractHeadings (index.ts, lines 1039-1067)
\* how many lines a document of the model may have
MaxLines == 4

\* the regular expression /^(#{1,6})\s+(.+)$/gm of line 1041, run over the
\* content as exec does (lines 1044-1064): a match starts at the start of a
\* line with one to six markers, \s+ takes the whitespace that follows, line
\* feeds included, and (.+) the rest of the line it stops in.  The next match
\* is looked for where this one ended.  The body runs from there to the first
\* match of the same expression in the remaining text (line 1050), trimmed.
\* (No line of the model ends in whitespace, so the expression never has to give
\* whitespace back to (.+).)
ExtractHeadings(content) ==
  LET n == Len(content)
      Ch(i) == SubSeq(content, i, i)
      Trim(text) ==
        LET kept == {i \in 1..Len(text) : SubSeq(text, i, i) \notin {" ", "\n"}} IN
        IF kept = {} THEN ""
        ELSE SubSeq(text, CHOOSE i \in kept : \A j \in kept : i <= j,
                          CHOOSE i \in kept : \A j \in kept : i >= j)
      \* the first position from i on that satisfies Stop, or n + 1
      Upto(i, Stop(_)) ==
        CHOOSE j \in i..(n + 1) :
          /\ j = n + 1 \/ Stop(j)
          /\ \A k \in i..(j - 1) : ~Stop(k)
      NotMarker(j) == Ch(j) # "#"
      NotSpace(j) == Ch(j) \notin {" ", "\n"}
      LineFeed(j) == Ch(j) = "\n"
      level(i) == Upto(i, NotMarker) - i
      textAt(i) == Upto(i + level(i), NotSpace)
      Matches(i) ==
        /\ i = 1 \/ Ch(i - 1) = "\n"
        /\ level(i) \in 1..6
        /\ textAt(i) > i + level(i)
        /\ textAt(i) <= n
      RECURSIVE Exec(_)
      Exec(lastIndex) ==
        LET index == Upto(lastIndex, Matches) IN
        IF lastIndex > n \/ index > n THEN << >>
        ELSE LET startPos == Upto(textAt(index), LineFeed)
                 endPos == IF startPos > n THEN n + 1 ELSE Upto(startPos, Matches)
             IN <<[heading |-> Trim(SubSeq(content, textAt(index), startPos - 1)),
                   level |-> level(index),
                   content |-> Trim(SubSeq(content, startPos, endPos - 1))]>>
                \o Exec(startPos)
  IN Exec(1)

\* extractHeadings(content, filePath) on the lines joined by line feeds
ApplyExtractHeadings ==
  /\ input.fn = "extractHeadings"
  /\ output = NoValue
  /\ output' =
       LET RECURSIVE Join(_)
           Join(lines) == IF lines = << >> THEN ""
                          ELSE IF Len(lines) = 1 THEN lines[1]
                          ELSE lines[1] \o "\n" \o Join(Tail(lines))
       IN [fn |-> "extractHeadings", content |-> Join(input.lines),
           headings |-> ExtractHeadings(Join(input.lines))]
  /\ UNCHANGED <<syncVars, files, now, cacheOp, firstReq, lastReq, input, headingCache>>

\* C28: heading extraction yields one entry per heading line (one to six markers,
\* then text), in the order of the document; the entry has the text of the line,
\* the number of its markers, and as body the text between the end of the line
\* and the start of the next heading line or the end of the document
C28_EntryPerHeadingLine ==
  output.fn = "extractHeadings" =>
    LET lines == input.lines
        Markers(line) == IF line = "# A" THEN 1 ELSE IF line = "## B" THEN 2 ELSE 0
        IsHeading(i) == Markers(lines[i]) > 0
        at == {i \in 1..Len(lines) : IsHeading(i)}
        \* the i-th heading line of the document
        RECURSIVE Nth(_, _)
        Nth(k, from) == LET i == CHOOSE i \in at : i >= from /\ \A j \in at : j >= from => i <= j
                        IN IF k = 1 THEN i ELSE Nth(k - 1, i + 1)
        Last(i) == IF \E j \in at : j > i
                     THEN (CHOOSE j \in at : j > i /\ \A k \in at : k > i => j <= k) - 1
                     ELSE Len(lines)
        \* the lines i+1..Last(i) without the empty ones at either end
        Body(i) ==
          LET kept == {j \in (i + 1)..Last(i) : lines[j] # ""}
              RECURSIVE Text(_, _)
              Text(a, b) == IF a = b THEN lines[a] ELSE lines[a] \o "\n" \o Text(a + 1, b)
          IN IF kept = {} THEN ""
             ELSE Text(CHOOSE j \in kept : \A k \in kept : j <= k,
                       CHOOSE j \in kept : \A k \in kept : j >= k)
    IN /\ Len(output.headings) = Cardinality(at)
       /\ \A k \in 1..Cardinality(at) :
            LET i == Nth(k, 1) IN
            /\ k <= Len(output.headings)
            /\ output.headings[k] =
                 [heading |-> SubSeq(lines[i], Markers(lines[i]) + 2, Len(lines[i])),
                  level |-> Markers(lines[i]),
                  content |-> Body(i)]

\* --------------------------- getHeadingIndex (index.ts, lines 1142-1178)
\* how many times the index may be rebuilt, and how many hours may pass
MaxBuilds == 3
MaxHours == 2

HourAndOne == 60 * 60 * 1000 + 1
\* lines 1148 and 1159: 3600000 milliseconds
Hour == 60 * 60 * 1000

BuildHeadingIndexInPlace(h, keywords, t) ==
  [h EXCEPT !.indexes[h.headingIndex] = [keywords |-> keywords, builtAt |-> t],
            !.lastHeadingIndexUpdate = t]
\* this.headingIndex = await this.buildHeadingIndex(); this.lastHeadingIndexUpdate
\* = Date.now() (lines 1162-1163 and 1345-1346): buildHeadingIndex (lines
\* 1074-1134) fills an object of its own (line 1076) with the keywords of the
\* headings it finds, none when the corpus has none or cannot be read (line
\* 1131), and the field is pointed at it
BuildHeadingIndex(h, keywords, t) ==
  [h EXCEPT !.indexes = Append(@, [keywords |-> keywords, builtAt |-> t]),
            !.headingIndex = Len(h.indexes) + 1,
            !.lastHeadingIndexUpdate = t]

\* run, lines 1343-1346: the index built before the transport is connected
InitialBuild ==
  /\ headingCache.lastGet = NoReq
  /\ \E keywords \in {{}, {"auth"}, {"auth", "api"}} :
       headingCache' = [BuildHeadingIndex(headingCache, keywords, now)
                          EXCEPT !.lastGet = [state |-> "started"]]
  /\ UNCHANGED <<syncVars, files, now, cacheOp, firstReq, lastReq, input, output>>

\* getHeadingIndex(sessionId), lines 1142-1178; sessionId "" stands for a call
\* without one, and no call arrives before run has built the index.  lastGet
\* records what the call found and what it did
GetHeadingIndex(sessionId) ==
  LET h == headingCache
      hadSnapshot == sessionId # "" /\ sessionId \in DOMAIN h.sessionCaches
      snapshotAge == IF hadSnapshot THEN now - h.sessionCaches[sessionId].lastUpdated ELSE 0
      globalEmpty == h.indexes[h.headingIndex].keywords = {}
      globalAge == now - h.lastHeadingIndexUpdate
      rebuild == globalEmpty \/ globalAge > Hour
      found == [state |-> "done", sessionId |-> sessionId, at |-> now,
                hadSnapshot |-> hadSnapshot, snapshotAge |-> snapshotAge,
                globalEmpty |-> globalEmpty, globalAge |-> globalAge]
  IN
  /\ h.lastGet # NoReq
  /\ IF hadSnapshot /\ snapshotAge < Hour
       THEN headingCache' =
              [h EXCEPT !.lastGet = found @@
                 [fromSession |-> TRUE, rebuilt |-> FALSE,
                  returned |-> h.sessionCaches[sessionId].headingIndex]]
       ELSE /\ rebuild => Len(h.indexes) <= MaxBuilds
            /\ \E keywords \in (IF rebuild THEN {{}, {"auth"}, {"auth", "api"}} ELSE {{}}) :
                 LET global == IF rebuild THEN BuildHeadingIndex(h, keywords, now) ELSE h IN
                 headingCache' =
                   [global EXCEPT
                      !.sessionCaches =
                         IF sessionId = "" THEN @
                         ELSE (sessionId :> [headingIndex |-> global.headingIndex,
                                             lastUpdated |-> now]) @@ @,
                      !.lastGet = found @@
                         [fromSession |-> FALSE, rebuilt |-> rebuild,
                          returned |-> global.headingIndex]]
  /\ UNCHANGED <<syncVars, files, now, cacheOp, firstReq, lastReq, input, output>>

\* time passes: to the last millisecond of an hour, to the hour, just past it
HeadingTick ==
  /\ \E d \in {1, Hour - 1} :
       /\ d = 1 => now % Hour \in {Hour - 1, 0}
       /\ now + d <= MaxHours * Hour + 1
       /\ now' = now + d
  /\ UNCHANGED <<syncVars, files, cacheOp, firstReq, lastReq, input, output, headingCache>>

HeadingNext ==
  \/ InitialBuild
  \/ \E sessionId \in {"", "s1"} : GetHeadingIndex(sessionId)
  \/ HeadingTick

HeadingSpec == CacheInit /\ [][HeadingNext]_vars

\* C29: getHeadingIndex reuses the snapshot of a session only while it is less
\* than one hour old; it reuses the global index only while that is non-empty
\* and at most one hour old; otherwise the global index is rebuilt, and the
\* snapshot of the session is replaced
C29_OneHourBothCaches ==
  headingCache.lastGet.state = "done" =>
    LET get == headingCache.lastGet
        current == headingCache.indexes[headingCache.headingIndex]
    IN /\ get.fromSession <=> (get.hadSnapshot /\ get.snapshotAge < 3600000)
       /\ get.fromSession => ~get.rebuilt
       /\ ~get.fromSession =>
            /\ get.rebuilt <=> ~(~get.globalEmpty /\ get.globalAge <= 3600000)
            /\ get.rebuilt => current.builtAt = get.at
            /\ get.returned = headingCache.headingIndex
            /\ get.sessionId # "" =>
                 headingCache.sessionCaches[get.sessionId] =
                   [headingIndex |-> headingCache.headingIndex, lastUpdated |-> get.at]

\* a snapshot exactly one hour old is not reused, while the global index of
\* the same age is
C29_Witness ==
  /\ headingCache.lastGet.state = "done"
  /\ headingCache.lastGet.hadSnapshot
  /\ headingCache.lastGet.snapshotAge = 3600000
  /\ headingCache.lastGet.globalAge = 3600000
  /\ ~headingCache.lastGet.fromSession
  /\ ~headingCache.lastGet.rebuilt

\* C39: the index getHeadingIndex returns, with or without a session id, was
\* built from the corpus no more than one hour before the call.
C39_ReturnedIndexFresh ==
  headingCache.lastGet.state = "done" =>
    LET get == headingCache.lastGet IN
    get.at - headingCache.indexes[get.returned].builtAt <= 3600000

\* C30: a rebuild replaces the index as a whole: no step adds, removes or
\* changes an entry of an index object that the snapshot of a session refers to
C30_SnapshotsUntouched ==
  [][\A sessionId \in DOMAIN headingCache.sessionCaches :
       LET index == headingCache.sessionCaches[sessionId].headingIndex IN
       /\ index \in DOMAIN headingCache'.indexes
       /\ headingCache'.indexes[index] = headingCache.indexes[index]]_vars

\* the global index was rebuilt after a session took its snapshot
C30_Witness ==
  /\ headingCache.lastGet.state = "done"
  /\ headingCache.lastGet.rebuilt
  /\ \E sessionId \in DOMAIN headingCache.sessionCaches :
       /\ headingCache.sessionCaches[sessionId].headingIndex # headingCache.headingIndex
       /\ headingCache.indexes[headingCache.sessionCaches[sessionId].headingIndex].keywords
            # headingCache.indexes[headingCache.headingIndex].keywords

\* ------------------------- the full-content branch of executeDocsSearch
\* index.ts lines 284-307: with fullContent and a filePath the file is read
\* and returned whole: fs.existsSync(filePath), fs.readFile(filePath), the
\* result in a code fence (three backquotes, written ~~~ here); a rejected
\* read is answered with its message.
\* disk maps the paths that exist to what is there; read is the path whose
\* content the answer holds
FullContent(args, disk) ==
  IF ~(args.fullContent /\ args.filePath # "")
    THEN [branch |-> "search", read |-> "", text |-> ""]
  ELSE IF args.filePath \notin DOMAIN disk
    THEN [branch |-> "fullContent", read |-> "",
          text |-> "File not found: " \o args.filePath]
  ELSE IF disk[args.filePath].isDirectory
    THEN [branch |-> "fullContent", read |-> "",
          text |-> "Error reading file " \o args.filePath
                     \o ": EISDIR: illegal operation on a directory, read"]
  ELSE [branch |-> "fullContent", read |-> args.filePath,
        text |-> "Full content of file: " \o args.filePath \o "\n\n~~~\n"
                   \o disk[args.filePath].content \o "\n~~~\n"]

ApplyFullContent ==
  /\ input.fn = "fullContent"
  /\ output = NoValue
  /\ output' = [fn |-> "fullContent",
                result |-> FullContent(input.args, input.disk)]
  /\ UNCHANGED <<syncVars, files, now, cacheOp, firstReq, lastReq, input, headingCache>>

\* C40: a full-content request only ever reads a file below the corpus root:
\* for a filePath outside it the answer holds no file content.
C40_ReadsUnderRootOnly ==
  output.fn = "fullContent" =>
    LET UnderRoot(path) ==
          /\ Len(path) > Len(DataDir) + 1
          /\ SubSeq(path, 1, Len(DataDir) + 1) = DataDir \o "/"
          /\ ~Includes(path, "/../")
    IN /\ output.result.read # "" => UnderRoot(output.result.read)
       /\ \A path \in DOMAIN input.disk :
            (~UnderRoot(path) /\ ~input.disk[path].isDirectory)
              => ~Includes(output.result.text, input.disk[path].content)

\* --------------------------------------- the specification of the functions
FunctionInputs ==
  KeyInputs \cup RankInputs \cup DirInputs \cup ClassifyInputs
    \cup [fn : {"load"}, first : Manifests, second : Manifests]
    \* the configuration file, the environment and the command line of a start
    \cup [fn : {"loadConfig"},
          file : {Absent} \cup
                 {Some(f) : f \in [gitUrl : {Absent, Some(""), Some("file-url")},
                                   autoUpdateInterval : {Absent, Some(0), Some(45)}]},
          env : [gitUrl : {Absent, Some(""), Some("env-url")},
                 autoUpdateInterval : {Absent, Some("0"), Some("30")}],
          args : [gitUrl : {Absent, Some(""), Some("arg-url")},
                  autoUpdateInterval : {Absent, Some(0), Some(15)}]]
    \* documents of at most MaxLines lines: headings, text, a marker with
    \* nothing after it, an empty line
    \cup [fn : {"extractHeadings"},
          lines : UNION {[1..len -> {"# A", "## B", "body1", "#", ""}] :
                           len \in 0..MaxLines}]
    \cup [fn : {"scope"}, manifest : Manifests,
          query : {"Gen1 api", "gen 2 auth", "custom api", "gen1 to gen2 auth"},
          amplifyGeneration : Generations]
    \* full-content requests: paths below the data directory, beside it, above
    \* it through "..", elsewhere on the disk, and paths that do not exist
    \cup [fn : {"fullContent"},
          args : [query : {"auth"}, fullContent : BOOLEAN,
                  filePath : {"", "data/src/pages/auth/index.mdx", "data/missing.mdx",
                              "data", "data/../secret.env", "database/notes.txt",
                              "/etc/passwd", "/etc/missing"}],
          disk : {("data" :> [isDirectory |-> TRUE, content |-> ""])
                  @@ ("data/src/pages/auth/index.mdx" :>
                        [isDirectory |-> FALSE, content |-> "# Auth"])
                  @@ ("data/../secret.env" :>
                        [isDirectory |-> FALSE, content |-> "TOKEN=1"])
                  @@ ("database/notes.txt" :>
                        [isDirectory |-> FALSE, content |-> "notes"])
                  @@ ("/etc/passwd" :>
                        [isDirectory |-> FALSE, content |-> "root:x:0:0"])}]

FunctionInit ==
  /\ SyncAtRest
  /\ files = << >>
  /\ now = 0
  /\ cacheOp = NoOp
  /\ firstReq = NoReq
  /\ lastReq = NoReq
  /\ input \in FunctionInputs
  /\ output = NoValue
  /\ headingCache = [indexes |-> <<[keywords |-> {}, builtAt |-> 0]>>,
                     headingIndex |-> 1, lastHeadingIndexUpdate |-> 0,
                     sessionCaches |-> << >>, lastGet |-> NoReq]

FunctionNext ==
  \/ ApplyGenerateKey
  \/ ApplyRankingFunction
  \/ ApplyGetMatchingPaths
  \/ ApplyClassifiers
  \/ ApplyLoadTwice
  \/ ApplyDirectoryScoping
  \/ ApplyFullContent
  \/ ApplyLoadConfig
  \/ ApplyExtractHeadings

FunctionSpec == FunctionInit /\ [][FunctionNext]_vars

====
